---- MODULE Spec2Model ----
(***************************************************************************)
(* Verification model of the resume generator: JSON section data sources   *)
(* (data_loader/section_loader.py), section renderers                      *)
(* (latex/resume_sections.py), the LaTeX buffer (latex/core.py) and the    *)
(* Resume assembler (latex/resume.py).                                     *)
(*                                                                         *)
(* Python values are modelled as records [t, s, n, l]: t is the runtime    *)
(* type, s the text of a str, n the number of an int/bool, l the elements  *)
(* of a list.  A dict is a function from its keys to values; it has no key *)
(* "t", which is how a mapping is told from any other value.  The buffer   *)
(* LateX.tex is a sequence of fragments, one per appended piece of text;   *)
(* a fragment is a tuple of strings (its markup kind and its arguments).   *)
(***************************************************************************)
EXTENDS Integers, Sequences, FiniteSets, TLC

VARIABLES
    selItems,   \* SpecSel: the collection handed to the selection engines
    selSpec,    \* SpecSel: the selection specification handed to them
    selOut,     \* SpecSel: outcome of each engine called so far
    tex,        \* LateX.tex, the document buffer
    err,        \* the exception raised by the last operation, NoErr if none
    pre,        \* the buffer as it was when the last operation began
    op,         \* the last operation called and its arguments
    nBuilder,   \* SpecSections: LateX builder calls made so far
    nSection,   \* SpecSections: section renderer calls made so far
    tree,           \* Resume.datasource: the loaded JSON root object
    templateExists, \* whether templates/resume.cls exists on disk
    dataSources,    \* Resume._data_sources: names with a cached data source
    fetches,        \* per section, how often the root was asked for its data
    validations,    \* per section, how often its validate() ran
    pc,             \* position inside create_resume, "idle" outside it
    sections,       \* create_resume's local sections_to_render
    idx,            \* create_resume's position in the body loop
    pdfCalls,       \* how often create_pdf ran
    nDirect,        \* direct create_* calls made so far
    jsonFile        \* the JSON file on disk that the JSONDataSource reads

selVars == <<selItems, selSpec, selOut>>
secVars == <<tex, err, pre, op, nBuilder, nSection>>
resVars == <<tree, templateExists, dataSources, fetches, validations, pc, sections,
             idx, pdfCalls, nDirect, jsonFile>>
vars == <<selItems, selSpec, selOut, tex, err, pre, op, nBuilder, nSection,
          tree, templateExists, dataSources, fetches, validations, pc, sections,
          idx, pdfCalls, nDirect, jsonFile>>

(***************************************************************************)
(* Bounds                                                                  *)
(***************************************************************************)
MaxItems == 3       \* longest collection handed to a selection engine
MaxIndices == 2     \* longest explicit index list
MaxCount == 4       \* largest selection count / index magnitude tried
MaxBuilderCalls == 1    \* SpecSections: LateX builder calls per document
MaxSectionCalls == 1    \* SpecSections: section renderer calls per document
MaxRequested == 2       \* Spec: longest explicit sections_to_render list
MaxTexLen == 7          \* Spec: a new operation starts only on a buffer this short
MaxDirectCalls == 1     \* Spec: direct create_* calls per Resume instance
MaxCounted == 3         \* Spec: the fetch/validation counters saturate here
MaxViolations == 2      \* SpecValidate: schema fields broken in one entry

(***************************************************************************)
(* Python values                                                           *)
(***************************************************************************)
PyStr(x) == [t |-> "str", s |-> x, n |-> 0, l |-> <<>>]
PyInt(k) == [t |-> "int", s |-> "", n |-> k, l |-> <<>>]
PyBool(b) == [t |-> "bool", s |-> "", n |-> IF b THEN 1 ELSE 0, l |-> <<>>]
PyNone == [t |-> "none", s |-> "", n |-> 0, l |-> <<>>]
PyList(sq) == [t |-> "list", s |-> "", n |-> 0, l |-> sq]

\* isinstance(obj, Mapping)
IsMapping(obj) == "t" \notin DOMAIN obj
\* type(obj).__name__ for the values of the model
TypeOf(obj) == IF IsMapping(obj) THEN "dict" ELSE obj.t
\* isinstance(obj, T) for T in str, int, list, NoneType; bool is a subclass of int
IsInstance(obj, T) ==
    CASE T = "str" -> TypeOf(obj) = "str"
      [] T = "int" -> TypeOf(obj) \in {"int", "bool"}
      [] T = "list" -> TypeOf(obj) = "list"
      [] T = "none" -> TypeOf(obj) = "none"
      [] OTHER -> FALSE
\* isinstance(obj, (T1, T2, ...))
IsInstanceAny(obj, Ts) == \E T \in Ts : IsInstance(obj, T)

Min(a, b) == IF a < b THEN a ELSE b
Max(a, b) == IF a > b THEN a ELSE b

\* Python's items[:n] for an int n (a negative n counts from the end)
SliceTo(items, n) ==
    IF n >= 0 THEN SubSeq(items, 1, Min(n, Len(items)))
    ELSE SubSeq(items, 1, Max(0, Len(items) + n))

\* Python's items[i] for an int i already known to be a valid subscript
Subscript(items, i) == IF i >= 0 THEN items[i + 1] ELSE items[Len(items) + i + 1]

(***************************************************************************)
(* Errors and outcomes                                                     *)
(***************************************************************************)
NoErr == [type |-> "none", tag |-> "", field |-> ""]
Err(type, tag, field) == [type |-> type, tag |-> tag, field |-> field]
Ok(v) == [err |-> NoErr, val |-> v]
Fail(e) == [err |-> e, val |-> <<>>]
Raised(out) == out.err.type # "none"

(***************************************************************************)
(* Selection engines                                                       *)
(***************************************************************************)
\* apply_selection without the negative-count check
apply_selection_no_negative_check(items, select, name) ==
    IF IsInstance(select, "none") THEN Ok(items)
    ELSE IF IsInstance(select, "int") THEN Ok(SliceTo(items, select.n))
    ELSE IF IsInstance(select, "list") THEN
        IF \E k \in 1..Len(select.l) : ~IsInstance(select.l[k], "int")
        THEN Fail(Err("TypeError", "non_integer_index", name))
        ELSE IF \E k \in 1..Len(select.l) :
                    select.l[k].n < 0 \/ select.l[k].n >= Len(items)
        THEN Fail(Err("IndexError", "index_out_of_range", name))
        ELSE Ok([k \in 1..Len(select.l) |-> items[select.l[k].n + 1]])
    ELSE Fail(Err("TypeError", "invalid_selection_type", name))

\* apply_selection whose range check forgets the lower bound, so that a
\* negative index counts from the end as a Python subscript does
apply_selection_negative_index(items, select, name) ==
    IF IsInstance(select, "none") THEN Ok(items)
    ELSE IF IsInstance(select, "int") THEN
        IF select.n < 0
        THEN Fail(Err("ValueError", "negative_count", name))
        ELSE Ok(SliceTo(items, select.n))
    ELSE IF IsInstance(select, "list") THEN
        IF \E k \in 1..Len(select.l) : ~IsInstance(select.l[k], "int")
        THEN Fail(Err("TypeError", "non_integer_index", name))
        ELSE IF \E k \in 1..Len(select.l) :
                    select.l[k].n < 0 - Len(items) \/ select.l[k].n >= Len(items)
        THEN Fail(Err("IndexError", "index_out_of_range", name))
        ELSE Ok([k \in 1..Len(select.l) |-> Subscript(items, select.l[k].n)])
    ELSE Fail(Err("TypeError", "invalid_selection_type", name))

\* apply_selection testing "not select" instead of "select is None": an unset
\* specification then selects nothing
apply_selection_falsy_none(items, select, name) ==
    IF IsInstance(select, "none") THEN Ok(<<>>)
    ELSE IF IsInstance(select, "int") THEN
        IF select.n < 0
        THEN Fail(Err("ValueError", "negative_count", name))
        ELSE Ok(SliceTo(items, select.n))
    ELSE IF IsInstance(select, "list") THEN
        IF \E k \in 1..Len(select.l) : ~IsInstance(select.l[k], "int")
        THEN Fail(Err("TypeError", "non_integer_index", name))
        ELSE IF \E k \in 1..Len(select.l) :
                    select.l[k].n < 0 \/ select.l[k].n >= Len(items)
        THEN Fail(Err("IndexError", "index_out_of_range", name))
        ELSE Ok([k \in 1..Len(select.l) |-> items[select.l[k].n + 1]])
    ELSE Fail(Err("TypeError", "invalid_selection_type", name))

\* apply_selection whose final raise is replaced by returning all items
apply_selection_accepts_any_type(items, select, name) ==
    IF IsInstance(select, "none") THEN Ok(items)
    ELSE IF IsInstance(select, "int") THEN
        IF select.n < 0
        THEN Fail(Err("ValueError", "negative_count", name))
        ELSE Ok(SliceTo(items, select.n))
    ELSE IF IsInstance(select, "list") THEN
        IF \E k \in 1..Len(select.l) : ~IsInstance(select.l[k], "int")
        THEN Fail(Err("TypeError", "non_integer_index", name))
        ELSE IF \E k \in 1..Len(select.l) :
                    select.l[k].n < 0 \/ select.l[k].n >= Len(items)
        THEN Fail(Err("IndexError", "index_out_of_range", name))
        ELSE Ok([k \in 1..Len(select.l) |-> items[select.l[k].n + 1]])
    ELSE Ok(items)

\* ListSection.apply_selection
apply_selection(items, select, name) ==
    IF IsInstance(select, "none") THEN Ok(items)
    ELSE IF IsInstance(select, "int") THEN
        IF select.n < 0
        THEN Fail(Err("ValueError", "negative_count", name))
        ELSE Ok(SliceTo(items, select.n))
    ELSE IF IsInstance(select, "list") THEN
        IF \E k \in 1..Len(select.l) : ~IsInstance(select.l[k], "int")
        THEN Fail(Err("TypeError", "non_integer_index", name))
        ELSE IF \E k \in 1..Len(select.l) :
                    select.l[k].n < 0 \/ select.l[k].n >= Len(items)
        THEN Fail(Err("IndexError", "index_out_of_range", name))
        ELSE Ok([k \in 1..Len(select.l) |-> items[select.l[k].n + 1]])
    ELSE Fail(Err("TypeError", "invalid_selection_type", name))

\* Python's [items[i] for i in select]: the first subscript that fails decides
ListComprehensionSubscript(items, select) ==
    LET bad(k) == \/ ~IsInstance(select[k], "int")
                  \/ select[k].n >= Len(items)
                  \/ select[k].n < 0 - Len(items)
        firstBad == CHOOSE k \in 1..Len(select) :
                        bad(k) /\ \A j \in 1..(k - 1) : ~bad(j)
    IN  IF \E k \in 1..Len(select) : bad(k)
        THEN IF ~IsInstance(select[firstBad], "int")
             THEN Fail(Err("TypeError", "list_indices_must_be_integers", ""))
             ELSE Fail(Err("IndexError", "list_index_out_of_range", ""))
        ELSE Ok([k \in 1..Len(select) |-> Subscript(items, select[k].n)])

\* ProjectsSection.add_projects, "Handle selection"
ProjectsSelection(projects, select) ==
    IF IsInstance(select, "none") THEN Ok(projects)
    ELSE IF IsInstance(select, "int") THEN Ok(SliceTo(projects, select.n))
    ELSE IF IsInstance(select, "list")
    THEN ListComprehensionSubscript(projects, select.l)
    ELSE Fail(Err("ValueError", "invalid_select_argument", ""))

\* CertificatesSection.add_certificates, "Handle selection"
CertificatesSelection(certificates, select) ==
    IF IsInstance(select, "none") THEN Ok(certificates)
    ELSE IF IsInstance(select, "int") THEN Ok(SliceTo(certificates, select.n))
    ELSE IF IsInstance(select, "list")
    THEN ListComprehensionSubscript(certificates, select.l)
    ELSE Fail(Err("ValueError", "invalid_select_argument", ""))

(***************************************************************************)
(* Text helpers                                                            *)
(***************************************************************************)
\* bool(obj): Python truthiness
Truthy(obj) ==
    IF IsMapping(obj) THEN DOMAIN obj # {}
    ELSE CASE obj.t = "str" -> obj.s # ""
           [] obj.t = "int" -> obj.n # 0
           [] obj.t = "bool" -> obj.n # 0
           [] obj.t = "list" -> Len(obj.l) > 0
           [] OTHER -> FALSE

\* repr(obj) of a scalar
Repr(obj) ==
    CASE TypeOf(obj) = "str" -> "'" \o obj.s \o "'"
      [] TypeOf(obj) = "int" -> ToString(obj.n)
      [] TypeOf(obj) = "bool" -> IF obj.n = 1 THEN "True" ELSE "False"
      [] TypeOf(obj) = "none" -> "None"
      [] TypeOf(obj) = "list" -> "[...]"
      [] OTHER -> "{...}"

RECURSIVE JoinStrings(_, _)
\* sep.join(strings) for a sequence of TLA+ strings
JoinStrings(sep, strings) ==
    IF Len(strings) = 0 THEN ""
    ELSE IF Len(strings) = 1 THEN strings[1]
    ELSE strings[1] \o sep \o JoinStrings(sep, Tail(strings))

\* format(obj) as an f-string field does: str(obj)
Fmt(obj) ==
    CASE TypeOf(obj) = "str" -> obj.s
      [] TypeOf(obj) = "list" ->
            "[" \o JoinStrings(", ", [k \in 1..Len(obj.l) |-> Repr(obj.l[k])]) \o "]"
      [] OTHER -> Repr(obj)

\* ", ".join(items) for a Python list of str
JoinComma(items) == JoinStrings(", ", [k \in 1..Len(items.l) |-> items.l[k].s])

\* dict.get(key), None when the key is absent
Get(obj, key) == IF key \in DOMAIN obj THEN obj[key] ELSE PyNone

\* all(isinstance(b, str) for b in lst)
AllStr(lst) == \A k \in 1..Len(lst.l) : IsInstance(lst.l[k], "str")

RECURSIVE Flatten(_)
\* "".join(blocks): the fragments of several blocks, in order
Flatten(blocks) ==
    IF Len(blocks) = 0 THEN <<>> ELSE Head(blocks) \o Flatten(Tail(blocks))

(***************************************************************************)
(* LateX (latex/core.py): each operator maps the buffer to the outcome     *)
(* [tex, err] of the method                                                *)
(***************************************************************************)
Done(buf) == [tex |-> buf, err |-> NoErr]
Abort(buf, e) == [tex |-> buf, err |-> e]

\* load_template assigning the buffer in place of appending to it
load_template_assigns(buf, template, exists) ==
    IF ~exists
    THEN Abort(buf, Err("FileNotFoundError", "template_not_found", template))
    ELSE Done(<< <<"documentclass", template>> >>)

\* LateX.load_template
load_template(buf, template, exists) ==
    IF ~exists
    THEN Abort(buf, Err("FileNotFoundError", "template_not_found", template))
    ELSE Done(Append(buf, <<"documentclass", template>>))

\* LateX.margins
margins(buf) == Done(Append(buf, <<"usepackage", "geometry">>))

\* LateX.begin_document
begin_document(buf) == Done(Append(buf, <<"begin", "document">>))

\* end_document that leaves the closing marker out
end_document_without_marker(buf) == Done(buf)

\* LateX.end_document
end_document(buf) == Done(Append(buf, <<"end", "document">>))

\* LateX.begin_section
begin_section(buf, title, section_type) == Done(Append(buf, <<section_type, title>>))

\* LateX.end_section: declared without parameters, so a call that passes
\* keyword arguments raises TypeError
end_section(buf, kwargs) ==
    IF kwargs # {}
    THEN Abort(buf, Err("TypeError", "unexpected_keyword_argument", "section_type"))
    ELSE Done(buf)

\* LateX.add_command
add_command(buf, command_name) == Done(Append(buf, <<"newcommand", command_name>>))

\* LateX.indent_command
indent_command(buf) == add_command(buf, "tab")

\* LateX.no_indent_command
no_indent_command(buf) == add_command(buf, "itab")

\* LateX.footnote_command
footnote_command(buf) == Done(Append(buf, <<"newcommand", "blfootnote">>))

\* LateX.vspace
vspace(buf, space) == Done(Append(buf, <<"vspace", ToString(space) \o "em">>))

\* LateX.add_raw_tex
add_raw_tex(buf, tex_code) == Done(Append(buf, <<"raw", tex_code>>))

(***************************************************************************)
(* Section renderers (latex/resume_sections.py)                            *)
(***************************************************************************)
\* the first error of a sequence of validation results, NoErr when none failed
FirstErr(errs) ==
    IF \E k \in 1..Len(errs) : errs[k] # NoErr
    THEN errs[CHOOSE k \in 1..Len(errs) :
                  errs[k] # NoErr /\ \A j \in 1..(k - 1) : errs[j] = NoErr]
    ELSE NoErr

\* the loop "for k, t in required.items()": required is the schema in
\* declaration order, a sequence of <<field, accepted types>>
RequiredLoop(obj, required) ==
    FirstErr([k \in 1..Len(required) |->
        IF required[k][1] \notin DOMAIN obj
        THEN Err("KeyError", "missing_field", required[k][1])
        ELSE IF ~IsInstanceAny(obj[required[k][1]], required[k][2])
        THEN Err("TypeError", "wrong_type", required[k][1])
        ELSE NoErr])

HeaderKeywords == {"first_name", "last_name", "phone", "location", "email", "linkedin"}
HeaderRequiredKeywords == {"first_name", "last_name", "phone", "location", "email"}

\* HeaderSection.add_header, called with the keyword arguments kwargs
add_header(buf, kwargs) ==
    IF ~(DOMAIN kwargs \subseteq HeaderKeywords)
    THEN Abort(buf, Err("TypeError", "unexpected_keyword_argument", "add_header"))
    ELSE IF ~(HeaderRequiredKeywords \subseteq DOMAIN kwargs)
    THEN Abort(buf, Err("TypeError", "missing_keyword_argument", "add_header"))
    ELSE LET email == Fmt(kwargs["email"])
             linkedin == Get(kwargs, "linkedin")
         IN  Done(buf \o
                << <<"name", Fmt(kwargs["first_name"]) \o " " \o Fmt(kwargs["last_name"])>>,
                   <<"address", Fmt(kwargs["phone"]), Fmt(kwargs["location"])>>,
                   IF Truthy(linkedin)
                   THEN <<"address", "href", "mailto:" \o email, email,
                          "href", Fmt(linkedin), Fmt(linkedin)>>
                   ELSE <<"address", "href", "mailto:" \o email, email>>,
                   <<"blank">> >>)

\* SkillsSection._validate_skill
validate_skill(skill) ==
    IF "category" \notin DOMAIN skill \/ "items" \notin DOMAIN skill
    THEN Err("KeyError", "missing_field", "category and items")
    ELSE IF ~IsInstance(skill["category"], "str")
    THEN Err("TypeError", "wrong_type", "category")
    ELSE IF ~IsInstance(skill["items"], "list") \/ ~AllStr(skill["items"])
    THEN Err("TypeError", "wrong_type", "items")
    ELSE NoErr

\* SkillsSection._skill_row
skill_row(skill) == <<"row", skill["category"].s, JoinComma(skill["items"])>>

\* add_skills without the early return for an empty list
add_skills_without_empty_check(buf, skills) ==
    LET e == FirstErr([k \in 1..Len(skills.l) |-> validate_skill(skills.l[k])])
        table == << <<"begin", "tabular">> >>
                 \o [k \in 1..Len(skills.l) |-> skill_row(skills.l[k])]
                 \o << <<"end", "tabular">> >>
    IN  IF e # NoErr THEN Abort(buf, e)
        ELSE end_section(begin_section(buf, "SKILLS", "rSection").tex \o table,
                         {"section_type"})

\* SkillsSection.add_skills
add_skills(buf, skills) ==
    IF ~Truthy(skills) THEN Done(buf)
    ELSE LET e == FirstErr([k \in 1..Len(skills.l) |-> validate_skill(skills.l[k])])
             table == << <<"begin", "tabular">> >>
                      \o [k \in 1..Len(skills.l) |-> skill_row(skills.l[k])]
                      \o << <<"end", "tabular">> >>
         IN  IF e # NoErr THEN Abort(buf, e)
             ELSE end_section(begin_section(buf, "SKILLS", "rSection").tex \o table,
                              {"section_type"})

\* ListSection._validate_bullets_field
validate_bullets_field(item, name) ==
    LET bullets == Get(item, "bullets")
    IN  IF ~IsInstance(bullets, "none")
           /\ (~IsInstance(bullets, "list") \/ ~AllStr(bullets))
        THEN Err("TypeError", "wrong_type", "bullets")
        ELSE NoErr

\* ListSection.render_bullets
render_bullets(bullets) ==
    IF ~Truthy(bullets) THEN <<>>
    ELSE << <<"begin", "itemize">> >>
         \o [k \in 1..Len(bullets.l) |-> <<"item", Fmt(bullets.l[k])>>]
         \o << <<"end", "itemize">> >>

ExperienceRequired ==
    << <<"role", {"str"}>>, <<"company", {"str"}>>, <<"start_date", {"str"}>>,
       <<"end_date", {"str", "none"}>>, <<"location", {"str"}>> >>

\* ExperienceSection._validate_experience
validate_experience(exp) ==
    LET e == RequiredLoop(exp, ExperienceRequired)
    IN  IF e # NoErr THEN e ELSE validate_bullets_field(exp, "Experience")

\* ExperienceSection._experience_block
experience_block(exp) ==
    << <<"textbf", Fmt(exp["role"])>>,
       <<"period", Fmt(exp["start_date"]) \o " - " \o
                   (IF Truthy(exp["end_date"]) THEN Fmt(exp["end_date"]) ELSE "Present")>>,
       <<"place", Fmt(exp["company"]), Fmt(exp["location"])>> >>
    \o (IF Truthy(Get(exp, "bullets")) THEN render_bullets(exp["bullets"]) ELSE <<>>)

EducationRequired ==
    << <<"degree", {"str"}>>, <<"subject", {"str"}>>, <<"school", {"str"}>>,
       <<"start_year", {"int"}>>, <<"end_year", {"int", "none"}>>,
       <<"location", {"str"}>> >>

\* EducationSection._validate_education
validate_education(edu) ==
    LET e == RequiredLoop(edu, EducationRequired)
    IN  IF e # NoErr THEN e ELSE validate_bullets_field(edu, "Education")

\* EducationSection._education_block
education_block(edu) ==
    << <<"textbf", Fmt(edu["degree"]) \o " " \o Fmt(edu["subject"])>>,
       <<"period", Fmt(edu["start_year"]) \o " - " \o
                   (IF Truthy(edu["end_year"]) THEN Fmt(edu["end_year"]) ELSE "Present")>>,
       <<"place", Fmt(edu["school"]), Fmt(edu["location"])>> >>
    \o (IF Truthy(Get(edu, "bullets")) THEN render_bullets(edu["bullets"]) ELSE <<>>)

\* the block_renderer argument of add_section, by the section that passes it
BlockRenderer(renderer, item) ==
    IF renderer = "experience" THEN experience_block(item) ELSE education_block(item)

\* ListSection.add_section with a block_renderer (every caller in the module
\* passes one: the itemized branch is not reached)
add_section(buf, items, select, section_name, renderer) ==
    LET sel == apply_selection(items.l, select, section_name)
        blocks == [k \in 1..Len(sel.val) |-> BlockRenderer(renderer, sel.val[k])]
    IN  IF Raised(sel) THEN Abort(buf, sel.err)
        ELSE IF sel.val = <<>> THEN Done(buf)
        ELSE end_section(begin_section(buf, section_name, "rSection").tex
                             \o Flatten(blocks),
                         {"section_type"})

\* ExperienceSection.add_experiences
add_experiences(buf, experiences, select) ==
    LET e == FirstErr([k \in 1..Len(experiences.l) |->
                           validate_experience(experiences.l[k])])
    IN  IF e # NoErr THEN Abort(buf, e)
        ELSE add_section(buf, experiences, select, "PROFESSIONAL EXPERIENCE", "experience")

\* EducationSection.add_education
add_education(buf, educations, select) ==
    LET e == FirstErr([k \in 1..Len(educations.l) |->
                           validate_education(educations.l[k])])
    IN  IF e # NoErr THEN Abort(buf, e)
        ELSE add_section(buf, educations, select, "EDUCATION", "education")

\* ProjectsSection._validate_project
validate_project(proj) ==
    IF "name" \notin DOMAIN proj \/ "bullets" \notin DOMAIN proj
    THEN Err("KeyError", "missing_field", "name and bullets")
    ELSE IF ~IsInstance(proj["name"], "str")
    THEN Err("TypeError", "wrong_type", "name")
    ELSE IF ~IsInstance(proj["bullets"], "list") \/ ~Truthy(proj["bullets"])
    THEN Err("TypeError", "wrong_type", "bullets")
    ELSE IF ~AllStr(proj["bullets"])
    THEN Err("TypeError", "wrong_type", "bullets")
    ELSE IF ~IsInstance(Get(proj, "link"), "none") /\ ~IsInstance(Get(proj, "link"), "str")
    THEN Err("TypeError", "wrong_type", "link")
    ELSE NoErr

\* _project_block with the test "link is not None" in place of truthiness
project_block_link_if_not_none(proj) ==
    IF Get(proj, "link") # PyNone
    THEN <<"item", Fmt(proj["name"]), proj["bullets"].l[1].s, "href", Fmt(proj["link"])>>
    ELSE <<"item", Fmt(proj["name"]), proj["bullets"].l[1].s>>

\* ProjectsSection._project_block
project_block(proj) ==
    IF Truthy(Get(proj, "link"))
    THEN <<"item", Fmt(proj["name"]), proj["bullets"].l[1].s, "href", Fmt(proj["link"])>>
    ELSE <<"item", Fmt(proj["name"]), proj["bullets"].l[1].s>>

\* ProjectsSection.add_projects
add_projects(buf, projects, select) ==
    LET e == FirstErr([k \in 1..Len(projects.l) |-> validate_project(projects.l[k])])
        sel == ProjectsSelection(projects.l, select)
    IN  IF e # NoErr THEN Abort(buf, e)
        ELSE IF Raised(sel) THEN Abort(buf, sel.err)
        ELSE Done(buf
                  \o << <<"rSection", "PROJECTS">>, <<"vspace", "-0.3em">>,
                        <<"begin", "itemize">> >>
                  \o [k \in 1..Len(sel.val) |-> project_block(sel.val[k])]
                  \o << <<"end", "itemize">> >>)

\* CertificatesSection._validate_certificate
validate_certificate(cert) ==
    IF "name" \notin DOMAIN cert \/ "bullets" \notin DOMAIN cert
    THEN Err("KeyError", "missing_field", "name and bullets")
    ELSE IF ~IsInstance(cert["name"], "str")
    THEN Err("TypeError", "wrong_type", "name")
    ELSE IF ~IsInstance(cert["bullets"], "list") \/ ~Truthy(cert["bullets"])
    THEN Err("TypeError", "wrong_type", "bullets")
    ELSE IF ~AllStr(cert["bullets"])
    THEN Err("TypeError", "wrong_type", "bullets")
    ELSE IF ~IsInstance(Get(cert, "link"), "none") /\ ~IsInstance(Get(cert, "link"), "str")
    THEN Err("TypeError", "wrong_type", "link")
    ELSE NoErr

\* CertificatesSection._certificate_block
certificate_block(cert) ==
    IF Truthy(Get(cert, "link"))
    THEN <<"item", Fmt(cert["name"]), cert["bullets"].l[1].s, "href", Fmt(cert["link"])>>
    ELSE <<"item", Fmt(cert["name"]), cert["bullets"].l[1].s>>

\* CertificatesSection.add_certificates
add_certificates(buf, certificates, select) ==
    LET e == FirstErr([k \in 1..Len(certificates.l) |->
                           validate_certificate(certificates.l[k])])
        sel == CertificatesSelection(certificates.l, select)
    IN  IF e # NoErr THEN Abort(buf, e)
        ELSE IF Raised(sel) THEN Abort(buf, sel.err)
        ELSE Done(buf
                  \o << <<"rSection", "CERTIFICATIONS">>, <<"vspace", "-0.3em">>,
                        <<"begin", "itemize">> >>
                  \o [k \in 1..Len(sel.val) |-> certificate_block(sel.val[k])]
                  \o << <<"end", "itemize">> >>)

\* the checks add_interests makes on one group, inside its loop
InterestGroupErr(group) ==
    IF "items" \notin DOMAIN group
    THEN Err("KeyError", "missing_field", "items")
    ELSE IF ~IsInstance(group["items"], "list") \/ ~AllStr(group["items"])
    THEN Err("TypeError", "wrong_type", "items")
    ELSE NoErr

\* InterestsSection.add_interests: the heading is appended first, then each
\* group is checked and appended in turn
add_interests(buf, interests) ==
    IF ~Truthy(interests) THEN Done(buf)
    ELSE LET errs == [k \in 1..Len(interests.l) |-> InterestGroupErr(interests.l[k])]
             e == FirstErr(errs)
             good == IF e = NoErr THEN Len(errs)
                     ELSE (CHOOSE k \in 1..Len(errs) :
                               errs[k] # NoErr /\ \A j \in 1..(k - 1) : errs[j] = NoErr) - 1
             started == begin_section(buf, "INTERESTS", "rSection").tex
                        \o [k \in 1..good |-> <<"text", JoinComma(interests.l[k]["items"])>>]
         IN  IF e # NoErr THEN Abort(started, e)
             ELSE end_section(started, {"section_type"})

(***************************************************************************)
(* Section data sources (data_loader/section_loader.py)                    *)
(***************************************************************************)
\* _require_mapping
require_mapping(obj, context) ==
    IF ~IsMapping(obj) THEN Err("TypeError", "not_a_mapping", context) ELSE NoErr

\* _require_list
require_list(obj, context) ==
    IF ~IsInstance(obj, "list") THEN Err("TypeError", "not_a_list", context) ELSE NoErr

\* _validate_required_fields: required_fields is the schema in declaration
\* order, a sequence of <<field, accepted types>>
validate_required_fields(obj, required_fields) ==
    FirstErr([k \in 1..Len(required_fields) |->
        IF required_fields[k][1] \notin DOMAIN obj
        THEN Err("KeyError", "missing_field", required_fields[k][1])
        ELSE IF ~IsInstanceAny(obj[required_fields[k][1]], required_fields[k][2])
        THEN Err("TypeError", "wrong_type", required_fields[k][1])
        ELSE NoErr])

\* SECTION_CLASSES keys, in declaration order
SectionOrder == <<"header", "skills", "experience", "education", "projects",
                  "certificates", "interests">>
SectionNames == {SectionOrder[k] : k \in 1..Len(SectionOrder)}
\* SECTIONS_WITH_SELECT
SECTIONS_WITH_SELECT == {"experience", "education", "projects", "certificates"}

\* every data source reading the key that equals its section's name
section_key_by_name(name) == name

\* section_key of the data source class registered for a section name
section_key(name) ==
    IF name = "experience" THEN "professional_experience" ELSE name

\* REQUIRED_FIELDS of the data source class registered for a section name
REQUIRED_FIELDS(name) ==
    CASE name = "header" ->
            << <<"first_name", {"str"}>>, <<"last_name", {"str"}>>, <<"email", {"str"}>>,
               <<"phone", {"str"}>>, <<"location", {"str"}>> >>
      [] name = "education" ->
            << <<"school", {"str"}>>, <<"degree", {"str"}>>, <<"subject", {"str"}>>,
               <<"start_year", {"int"}>>, <<"end_year", {"int"}>>,
               <<"location", {"str"}>>, <<"bullets", {"list"}>> >>
      [] name = "experience" ->
            << <<"company", {"str"}>>, <<"role", {"str"}>>, <<"start_date", {"str"}>>,
               <<"end_date", {"str", "none"}>>, <<"location", {"str"}>>,
               <<"bullets", {"list"}>> >>
      [] name \in {"projects", "certificates"} ->
            << <<"name", {"str"}>>, <<"bullets", {"list"}>>, <<"link", {"str"}>> >>
      [] OTHER -> <<>>

\* what validate() checks on one entry of a list section
EntryErr(name, entry) ==
    IF require_mapping(entry, name) # NoErr THEN require_mapping(entry, name)
    ELSE IF name = "skills" THEN
        IF "category" \notin DOMAIN entry \/ ~IsInstance(entry["category"], "str")
        THEN Err("KeyError", "missing_valid_field", "category")
        ELSE IF "items" \notin DOMAIN entry \/ ~IsInstance(entry["items"], "list")
        THEN Err("KeyError", "missing_valid_field", "items")
        ELSE NoErr
    ELSE IF name = "interests" THEN
        IF "items" \notin DOMAIN entry \/ ~IsInstance(entry["items"], "list")
        THEN Err("KeyError", "missing_valid_field", "items")
        ELSE NoErr
    ELSE validate_required_fields(entry, REQUIRED_FIELDS(name))

\* <Section>DataSource.validate, by section name
validate(name, section) ==
    IF name = "header" THEN
        IF require_mapping(section, "Header") # NoErr
        THEN require_mapping(section, "Header")
        ELSE validate_required_fields(section, REQUIRED_FIELDS("header"))
    ELSE IF require_list(section, name) # NoErr THEN require_list(section, name)
    ELSE FirstErr([k \in 1..Len(section.l) |-> EntryErr(name, section.l[k])])

\* SectionDataSource.data: the section of the root, validated
datasource_data(name, root) ==
    IF section_key(name) \notin DOMAIN root
    THEN Fail(Err("KeyError", "missing_section", section_key(name)))
    ELSE IF validate(name, root[section_key(name)]) # NoErr
    THEN Fail(validate(name, root[section_key(name)]))
    ELSE Ok(root[section_key(name)])

(***************************************************************************)
(* Resume (latex/resume.py)                                                *)
(***************************************************************************)
\* Resume.create_document_head: stops at the first method that raises
create_document_head(buf, exists) ==
    LET a == load_template(buf, "resume", exists)
    IN  IF a.err # NoErr THEN a
        ELSE no_indent_command(
                 indent_command(footnote_command(margins(a.tex).tex).tex).tex)

\* Resume._render_section: the buffer and exception it leaves
render_section(buf, root, section_name, select) ==
    IF section_name \notin SectionNames
    THEN Abort(buf, Err("KeyError", "unregistered_section", section_name))
    ELSE LET section_data == datasource_data(section_name, root)
         IN  IF Raised(section_data) THEN Abort(buf, section_data.err)
             ELSE CASE section_name = "experience" ->
                          add_experiences(buf, section_data.val, select)
                    [] section_name = "education" ->
                          add_education(buf, section_data.val, select)
                    [] section_name = "projects" ->
                          add_projects(buf, section_data.val, select)
                    [] section_name = "certificates" ->
                          add_certificates(buf, section_data.val, select)
                    [] section_name = "header" -> add_header(buf, section_data.val)
                    [] section_name = "skills" -> add_skills(buf, section_data.val)
                    [] OTHER -> add_interests(buf, section_data.val)

(***************************************************************************)
(* Input data                                                              *)
(***************************************************************************)
StrList(strings) == PyList([k \in 1..Len(strings) |-> PyStr(strings[k])])

ExpEng == [role |-> PyStr("Eng"), company |-> PyStr("ACo"), start_date |-> PyStr("2020"),
           end_date |-> PyNone, location |-> PyStr("NY"), bullets |-> StrList(<<"Did X">>)]
ExpMgr == [role |-> PyStr("Mgr"), company |-> PyStr("BCo"), start_date |-> PyStr("2018"),
           end_date |-> PyStr("2019"), location |-> PyStr("CA"), bullets |-> StrList(<<>>)]
ExpNoRole == [company |-> PyStr("CCo"), start_date |-> PyStr("2017"),
              end_date |-> PyNone, location |-> PyStr("TX"), bullets |-> StrList(<<>>)]
ExpBadBullets == [role |-> PyStr("Dev"), company |-> PyStr("DCo"),
                  start_date |-> PyStr("2016"), end_date |-> PyNone,
                  location |-> PyStr("WA"), bullets |-> PyList(<<PyInt(1)>>)]
ExpBlankEnd == [role |-> PyStr("Ops"), company |-> PyStr("ECo"),
                start_date |-> PyStr("2015"), end_date |-> PyStr(""),
                location |-> PyStr("OR"), bullets |-> StrList(<<>>)]
ExperienceLists ==
    {PyList(<<>>), PyList(<<ExpEng>>), PyList(<<ExpEng, ExpMgr>>),
     PyList(<<ExpEng, ExpNoRole>>), PyList(<<ExpEng, ExpBadBullets>>),
     PyList(<<ExpMgr, ExpBlankEnd>>)}

EduBSc == [degree |-> PyStr("BSc"), subject |-> PyStr("Math"), school |-> PyStr("UnivA"),
           start_year |-> PyInt(2018), end_year |-> PyInt(2022),
           location |-> PyStr("Boston"), bullets |-> StrList(<<"Honors">>)]
EduMSc == [degree |-> PyStr("MSc"), subject |-> PyStr("CS"), school |-> PyStr("UnivB"),
           start_year |-> PyInt(2022), end_year |-> PyNone,
           location |-> PyStr("NY"), bullets |-> StrList(<<>>)]
EduBadYear == [degree |-> PyStr("PhD"), subject |-> PyStr("AI"), school |-> PyStr("UnivC"),
               start_year |-> PyStr("2024"), end_year |-> PyNone,
               location |-> PyStr("LA"), bullets |-> StrList(<<>>)]
EduBadBullets == [degree |-> PyStr("MBA"), subject |-> PyStr("Fin"),
                  school |-> PyStr("UnivD"), start_year |-> PyInt(2010),
                  end_year |-> PyInt(2012), location |-> PyStr("SF"),
                  bullets |-> PyList(<<PyInt(1)>>)]
EduYearZero == [degree |-> PyStr("BA"), subject |-> PyStr("Art"),
                school |-> PyStr("UnivE"), start_year |-> PyInt(2001),
                end_year |-> PyInt(0), location |-> PyStr("TX"),
                bullets |-> StrList(<<>>)]
EducationLists ==
    {PyList(<<>>), PyList(<<EduBSc>>), PyList(<<EduBSc, EduMSc>>),
     PyList(<<EduBSc, EduBadYear>>), PyList(<<EduBSc, EduBadBullets>>),
     PyList(<<EduBSc, EduYearZero>>)}

ProjP1 == [name |-> PyStr("P1"), bullets |-> StrList(<<"x">>), link |-> PyStr("http://a")]
ProjP2 == [name |-> PyStr("P2"), bullets |-> StrList(<<"y">>)]
ProjP3 == [name |-> PyStr("P3"), bullets |-> StrList(<<"z">>), link |-> PyStr("")]
ProjNoBullets == [name |-> PyStr("P4"), bullets |-> StrList(<<>>), link |-> PyStr("http://d")]
ProjectLists ==
    {PyList(<<>>), PyList(<<ProjP1>>), PyList(<<ProjP1, ProjP2>>),
     PyList(<<ProjP1, ProjP3>>), PyList(<<ProjP1, ProjNoBullets>>)}

CertK1 == [name |-> PyStr("K1"), bullets |-> StrList(<<"u">>), link |-> PyStr("http://k")]
CertK2 == [name |-> PyStr("K2"), bullets |-> StrList(<<"v">>), link |-> PyNone]
CertK3 == [name |-> PyStr("K3"), bullets |-> StrList(<<"w">>), link |-> PyStr("")]
CertBadName == [name |-> PyInt(7), bullets |-> StrList(<<"w">>), link |-> PyStr("http://m")]
CertificateLists ==
    {PyList(<<>>), PyList(<<CertK1>>), PyList(<<CertK1, CertK2>>),
     PyList(<<CertK1, CertK3>>), PyList(<<CertK1, CertBadName>>)}

SkillLang == [category |-> PyStr("Languages"), items |-> StrList(<<"Python", "SQL">>)]
SkillTools == [category |-> PyStr("Tools"), items |-> StrList(<<"Git">>)]
SkillNoItems == [category |-> PyStr("Cloud")]
SkillBadItems == [category |-> PyStr("Data"), items |-> PyList(<<PyInt(1)>>)]
SkillLists ==
    {PyList(<<>>), PyList(<<SkillLang>>), PyList(<<SkillLang, SkillTools>>),
     PyList(<<SkillLang, SkillNoItems>>), PyList(<<SkillLang, SkillBadItems>>)}

GroupOutdoor == [items |-> StrList(<<"Hiking", "Travel">>)]
GroupTech == [items |-> StrList(<<"Blogging">>)]
GroupNoItems == [label |-> PyStr("misc")]
GroupBadItems == [items |-> PyList(<<PyInt(1)>>)]
InterestLists ==
    {PyList(<<>>), PyList(<<GroupOutdoor>>), PyList(<<GroupOutdoor, GroupTech>>),
     PyList(<<GroupOutdoor, GroupNoItems>>), PyList(<<GroupOutdoor, GroupBadItems>>)}

HeaderPlain == [first_name |-> PyStr("Jane"), last_name |-> PyStr("Doe"),
                phone |-> PyStr("123"), location |-> PyStr("Boston"),
                email |-> PyStr("jane@x.org")]
HeaderLinked == [first_name |-> PyStr("Jane"), last_name |-> PyStr("Doe"),
                 phone |-> PyStr("123"), location |-> PyStr("Boston"),
                 email |-> PyStr("jane@x.org"), linkedin |-> PyStr("https://l.in/jane")]
HeaderNullLink == [first_name |-> PyStr("Jane"), last_name |-> PyStr("Doe"),
                   phone |-> PyStr("123"), location |-> PyStr("Boston"),
                   email |-> PyStr("jane@x.org"), linkedin |-> PyNone]
HeaderExtraKey == [first_name |-> PyStr("Jane"), last_name |-> PyStr("Doe"),
                   phone |-> PyStr("123"), location |-> PyStr("Boston"),
                   email |-> PyStr("jane@x.org"), github |-> PyStr("https://g.h/jane")]
HeaderNoEmail == [first_name |-> PyStr("Jane"), last_name |-> PyStr("Doe"),
                  phone |-> PyStr("123"), location |-> PyStr("Boston")]
Headers == {HeaderPlain, HeaderLinked, HeaderNullLink, HeaderExtraKey, HeaderNoEmail}

\* selection specifications handed to the section renderers: everything, an
\* empty count, a negative count and an index list (the selection engines
\* themselves are explored with every form under SpecSel)
SectionSelects ==
    {PyNone, PyInt(0), PyInt(0 - 1), PyList(<<PyInt(1)>>)}

(***************************************************************************)
(* SpecSel: the selection engines applied to bounded inputs                *)
(***************************************************************************)
NoOp == [name |-> "", data |-> PyNone, select |-> PyNone]
\* the JSON file is not looked at after the Resume was constructed
NoFile == [kind |-> "unread", value |-> PyNone]
\* no Resume instance takes part
NoResume ==
    /\ tree = <<>>
    /\ templateExists = TRUE
    /\ dataSources = {}
    /\ fetches = <<>>
    /\ validations = <<>>
    /\ pc = "idle"
    /\ sections = <<>>
    /\ idx = 0
    /\ pdfCalls = 0
    /\ nDirect = 0
    /\ jsonFile = NoFile
Engines == {"apply_selection", "experience", "education", "projects", "certificates"}
NotCalled == [err |-> Err("notcalled", "", ""), val |-> <<>>]

\* an item of a generic collection: tests use {"id": i}
Item(i) == [id |-> PyInt(i)]
SeqsUpTo(S, n) == UNION {[1..k -> S] : k \in 0..n}
Collections == {[k \in 1..m |-> Item(k - 1)] : m \in 0..MaxItems}
IndexEntries == {PyInt(i) : i \in (0 - MaxCount)..MaxCount} \cup {PyStr("a"), PyNone, PyBool(TRUE)}
SelectSpecs ==
    {PyNone, PyStr("bad"), PyBool(TRUE)}
    \cup {PyInt(n) : n \in (0 - MaxCount)..MaxCount}
    \cup {PyList(sq) : sq \in SeqsUpTo(IndexEntries, MaxIndices)}

InitSel ==
    /\ selItems \in Collections
    /\ selSpec \in SelectSpecs
    /\ selOut = [e \in Engines |-> NotCalled]
    /\ tex = <<>>
    /\ err = NoErr
    /\ pre = <<>>
    /\ op = NoOp
    /\ nBuilder = 0
    /\ nSection = 0
    /\ NoResume

\* the static method called directly, as the tests do
CallApplySelection ==
    /\ selOut["apply_selection"] = NotCalled
    /\ selOut' = [selOut EXCEPT !["apply_selection"] =
                      apply_selection(selItems, selSpec, "Test")]
    /\ UNCHANGED <<selItems, selSpec>>
    /\ UNCHANGED <<secVars, resVars>>

\* ListSection.add_section, first statement, as reached from add_experiences
CallExperienceSelection ==
    /\ selOut["experience"] = NotCalled
    /\ selOut' = [selOut EXCEPT !["experience"] =
                      apply_selection(selItems, selSpec, "PROFESSIONAL EXPERIENCE")]
    /\ UNCHANGED <<selItems, selSpec>>
    /\ UNCHANGED <<secVars, resVars>>

\* ListSection.add_section, first statement, as reached from add_education
CallEducationSelection ==
    /\ selOut["education"] = NotCalled
    /\ selOut' = [selOut EXCEPT !["education"] =
                      apply_selection(selItems, selSpec, "EDUCATION")]
    /\ UNCHANGED <<selItems, selSpec>>
    /\ UNCHANGED <<secVars, resVars>>

CallProjectsSelection ==
    /\ selOut["projects"] = NotCalled
    /\ selOut' = [selOut EXCEPT !["projects"] = ProjectsSelection(selItems, selSpec)]
    /\ UNCHANGED <<selItems, selSpec>>
    /\ UNCHANGED <<secVars, resVars>>

CallCertificatesSelection ==
    /\ selOut["certificates"] = NotCalled
    /\ selOut' = [selOut EXCEPT !["certificates"] =
                      CertificatesSelection(selItems, selSpec)]
    /\ UNCHANGED <<selItems, selSpec>>
    /\ UNCHANGED <<secVars, resVars>>

NextSel ==
    \/ CallApplySelection
    \/ CallExperienceSelection
    \/ CallEducationSelection
    \/ CallProjectsSelection
    \/ CallCertificatesSelection

SpecSel == InitSel /\ [][NextSel]_vars

(***************************************************************************)
(* Claims about the selection engines (checked under SpecSel)              *)
(***************************************************************************)
SelectionSections == {"experience", "education", "projects", "certificates"}
Called(e) == selOut[e] # NotCalled
\* the items at the first k positions of the collection, in source order
IsPrefixOfLength(val, items, k) ==
    /\ Len(val) = k
    /\ \A j \in 1..k : val[j] = items[j]
AllIntegerIndices(select) ==
    /\ TypeOf(select) = "list"
    /\ \A k \in 1..Len(select.l) : TypeOf(select.l[k]) \in {"int", "bool"}

\* C6: the four collection sections select identically: for the same
\* collection and specification they return the same items or fail with the
\* same kind of error, and each rejects a negative count and a negative index.
C6_SameEngineEverywhere ==
    /\ \A a, b \in SelectionSections :
          (Called(a) /\ Called(b)) =>
              /\ selOut[a].err.type = selOut[b].err.type
              /\ selOut[a].err.tag = selOut[b].err.tag
              /\ selOut[a].val = selOut[b].val
    /\ \A a \in SelectionSections :
          (Called(a) /\ TypeOf(selSpec) = "int" /\ selSpec.n < 0) => Raised(selOut[a])
    /\ \A a \in SelectionSections :
          (/\ Called(a)
           /\ AllIntegerIndices(selSpec)
           /\ \E k \in 1..Len(selSpec.l) : selSpec.l[k].n < 0) => Raised(selOut[a])

\* C7: apply_selection with a count N >= 0 returns exactly the first
\* min(N, len(items)) items in source order, and with N < 0 it fails with the
\* negative-count error and returns nothing.
C7_CountSelectsPrefix ==
    (Called("apply_selection") /\ TypeOf(selSpec) = "int") =>
        IF selSpec.n >= 0
        THEN /\ ~Raised(selOut["apply_selection"])
             /\ IsPrefixOfLength(selOut["apply_selection"].val, selItems,
                                 Min(selSpec.n, Len(selItems)))
        ELSE /\ selOut["apply_selection"].err.type = "ValueError"
             /\ selOut["apply_selection"].err.tag = "negative_count"
             /\ selOut["apply_selection"].val = <<>>

\* a count larger than a non-empty collection returned the whole collection
C7_Witness ==
    /\ Called("apply_selection")
    /\ TypeOf(selSpec) = "int"
    /\ Len(selItems) > 0
    /\ selSpec.n > Len(selItems)
    /\ selOut["apply_selection"] = Ok(selItems)

\* C8: apply_selection with a list of integer indices, all within
\* 0 <= i < len(items), returns the items at those indices in the given order
\* (one per index, repeats included); if any index is negative or
\* >= len(items) it fails with the out-of-range error.
C8_IndexListSelectsInOrder ==
    (Called("apply_selection") /\ AllIntegerIndices(selSpec)) =>
        IF \A k \in 1..Len(selSpec.l) :
               0 <= selSpec.l[k].n /\ selSpec.l[k].n < Len(selItems)
        THEN /\ ~Raised(selOut["apply_selection"])
             /\ Len(selOut["apply_selection"].val) = Len(selSpec.l)
             /\ \A k \in 1..Len(selSpec.l) :
                   selOut["apply_selection"].val[k] = Item(selSpec.l[k].n)
        ELSE /\ selOut["apply_selection"].err.type = "IndexError"
             /\ selOut["apply_selection"].err.tag = "index_out_of_range"
             /\ selOut["apply_selection"].val = <<>>

\* a repeated index selected the same item twice
C8_Witness ==
    /\ Called("apply_selection")
    /\ selSpec = PyList(<<PyInt(1), PyInt(1)>>)
    /\ Len(selItems) >= 2
    /\ selOut["apply_selection"].val = <<selItems[2], selItems[2]>>

\* C9: apply_selection with an unset (None) specification returns the
\* collection unchanged: same items, same order, same length.
C9_UnsetReturnsAll ==
    (Called("apply_selection") /\ TypeOf(selSpec) = "none") =>
        /\ ~Raised(selOut["apply_selection"])
        /\ selOut["apply_selection"].val = selItems

C9_Witness ==
    /\ Called("apply_selection")
    /\ selSpec = PyNone
    /\ Len(selItems) = MaxItems
    /\ selOut["apply_selection"].val = selItems

\* C10: a specification that is neither None, an int nor a list fails with
\* the invalid-selection-type error, and a list with any non-integer entry
\* fails with the non-integer-index error; neither returns a subset.
C10_BadSpecShapeRejected ==
    Called("apply_selection") =>
        /\ TypeOf(selSpec) \notin {"none", "int", "bool", "list"} =>
              /\ selOut["apply_selection"].err.type = "TypeError"
              /\ selOut["apply_selection"].err.tag = "invalid_selection_type"
              /\ selOut["apply_selection"].val = <<>>
        /\ (/\ TypeOf(selSpec) = "list"
            /\ \E k \in 1..Len(selSpec.l) :
                  TypeOf(selSpec.l[k]) \notin {"int", "bool"}) =>
              /\ selOut["apply_selection"].err.type = "TypeError"
              /\ selOut["apply_selection"].err.tag = "non_integer_index"
              /\ selOut["apply_selection"].val = <<>>

\* a list holding a valid index and a non-integer was rejected
C10_Witness ==
    /\ Called("apply_selection")
    /\ selSpec = PyList(<<PyInt(0), PyStr("a")>>)
    /\ Len(selItems) > 0
    /\ selOut["apply_selection"].err.tag = "non_integer_index"

(***************************************************************************)
(* SpecSections: the LateX builder and the section renderers called        *)
(* directly on one document, as the unit tests do                          *)
(***************************************************************************)
InitSections ==
    /\ selItems = <<>>
    /\ selSpec = PyNone
    /\ selOut = [e \in Engines |-> NotCalled]
    /\ tex = <<>>
    /\ err = NoErr
    /\ pre = <<>>
    /\ op = NoOp
    /\ nBuilder = 0
    /\ nSection = 0
    /\ NoResume

\* the effect of one call: the buffer and the exception it leaves
Effect(name, data, select, out) ==
    /\ tex' = out.tex
    /\ err' = out.err
    /\ pre' = tex
    /\ op' = [name |-> name, data |-> data, select |-> select]

BuilderCall(name, out) ==
    /\ nBuilder < MaxBuilderCalls
    /\ nBuilder' = nBuilder + 1
    /\ Effect(name, PyNone, PyNone, out)
    /\ UNCHANGED <<nSection, selVars, resVars>>

SectionCall(name, data, select, out) ==
    /\ nSection < MaxSectionCalls
    /\ nSection' = nSection + 1
    /\ Effect(name, data, select, out)
    /\ UNCHANGED <<nBuilder, selVars, resVars>>

LoadTemplate == \E exists \in BOOLEAN :
    BuilderCall("load_template", load_template(tex, "resume", exists))
Margins == BuilderCall("margins", margins(tex))
BeginDocument == BuilderCall("begin_document", begin_document(tex))
EndDocument == BuilderCall("end_document", end_document(tex))
BeginSection == BuilderCall("begin_section", begin_section(tex, "SUMMARY", "rSection"))
EndSection == \E kwargs \in {{}, {"section_type"}} :
    BuilderCall("end_section", end_section(tex, kwargs))
Vspace == BuilderCall("vspace", vspace(tex, 1))
IndentCommand == BuilderCall("indent_command", indent_command(tex))
NoIndentCommand == BuilderCall("no_indent_command", no_indent_command(tex))
FootnoteCommand == BuilderCall("footnote_command", footnote_command(tex))
AddRawTex == BuilderCall("add_raw_tex", add_raw_tex(tex, "text"))

AddHeader == \E kwargs \in Headers :
    SectionCall("add_header", kwargs, PyNone, add_header(tex, kwargs))
AddSkills == \E skills \in SkillLists :
    SectionCall("add_skills", skills, PyNone, add_skills(tex, skills))
AddExperiences == \E experiences \in ExperienceLists, select \in SectionSelects :
    SectionCall("add_experiences", experiences, select,
                add_experiences(tex, experiences, select))
AddEducation == \E educations \in EducationLists, select \in SectionSelects :
    SectionCall("add_education", educations, select,
                add_education(tex, educations, select))
AddProjects == \E projects \in ProjectLists, select \in SectionSelects :
    SectionCall("add_projects", projects, select, add_projects(tex, projects, select))
AddCertificates == \E certificates \in CertificateLists, select \in SectionSelects :
    SectionCall("add_certificates", certificates, select,
                add_certificates(tex, certificates, select))
AddInterests == \E interests \in InterestLists :
    SectionCall("add_interests", interests, PyNone, add_interests(tex, interests))

NextSections ==
    \/ LoadTemplate
    \/ Margins
    \/ BeginDocument
    \/ EndDocument
    \/ BeginSection
    \/ EndSection
    \/ Vspace
    \/ IndentCommand
    \/ NoIndentCommand
    \/ FootnoteCommand
    \/ AddRawTex
    \/ AddHeader
    \/ AddSkills
    \/ AddExperiences
    \/ AddEducation
    \/ AddProjects
    \/ AddCertificates
    \/ AddInterests

SpecSections == InitSections /\ [][NextSections]_vars

(***************************************************************************)
(* Claims about the section renderers (checked under SpecSections)         *)
(***************************************************************************)
RenderCalls == {"add_header", "add_skills", "add_experiences", "add_education",
                "add_projects", "add_certificates", "add_interests"}
CollectionCalls == {"add_experiences", "add_education", "add_projects",
                    "add_certificates"}
\* the errors of validation and of selection (not the TypeError of a call
\* that does not match the signature of LateX.end_section)
ValidationOrSelectionTags ==
    {"missing_field", "wrong_type", "negative_count", "non_integer_index",
     "index_out_of_range", "invalid_selection_type", "list_index_out_of_range",
     "list_indices_must_be_integers", "invalid_select_argument"}

\* C2: when a section render call fails with a validation or selection
\* error, the buffer after the call is exactly the buffer before it.
C2_FailedRenderLeavesBuffer ==
    (op.name \in RenderCalls /\ err.tag \in ValidationOrSelectionTags) => tex = pre

\* the subset a selection specification leaves of a list is empty: the
\* source list is empty, the count is 0, or the index list is empty
EmptySelection(data, select) ==
    \/ Len(data.l) = 0 /\ TypeOf(select) \in {"none", "int"} /\ select.n >= 0
    \/ TypeOf(select) = "int" /\ select.n = 0
    \/ TypeOf(select) = "list" /\ Len(select.l) = 0

\* C5: a collection section rendered with a selection whose subset is
\* empty appends nothing to the buffer.
C5_EmptySelectionRendersNothing ==
    (/\ op.name \in CollectionCalls
     /\ err = NoErr
     /\ EmptySelection(op.data, op.select)) => tex = pre

(***************************************************************************)
(* Spec: one Resume instance over a loaded JSON root                       *)
(***************************************************************************)
\* every section present and accepted by its data source
TreeFull ==
    [header |-> HeaderLinked,
     skills |-> PyList(<<SkillLang, SkillTools>>),
     professional_experience |-> PyList(<<ExpEng, ExpMgr>>),
     education |-> PyList(<<EduBSc>>),
     projects |-> PyList(<<ProjP1, ProjP3>>),
     certificates |-> PyList(<<CertK1, CertK3>>),
     interests |-> PyList(<<GroupOutdoor, GroupTech>>)]
\* every section present, every list empty
TreeEmpty ==
    [header |-> HeaderPlain,
     skills |-> PyList(<<>>),
     professional_experience |-> PyList(<<>>),
     education |-> PyList(<<>>),
     projects |-> PyList(<<>>),
     certificates |-> PyList(<<>>),
     interests |-> PyList(<<>>)]
\* entries that a data source or a renderer rejects
TreeFlawed ==
    [header |-> HeaderExtraKey,
     skills |-> PyList(<<SkillLang, SkillBadItems>>),
     professional_experience |-> PyList(<<ExpEng, ExpBadBullets>>),
     education |-> PyList(<<EduBSc, EduMSc>>),
     projects |-> PyList(<<ProjP1, ProjP2>>),
     certificates |-> PyList(<<CertK1, CertK2>>),
     interests |-> PyList(<<GroupOutdoor, GroupBadItems>>)]
\* the sections under the registry's names, some missing
TreeSparse ==
    [header |-> HeaderNullLink,
     experience |-> PyList(<<ExpEng, ExpMgr>>),
     projects |-> PyList(<<ProjP1, ProjP3>>),
     interests |-> PyList(<<GroupOutdoor>>)]
\* every registered section name is a top-level key
TreeByName ==
    [header |-> HeaderNullLink,
     skills |-> PyList(<<>>),
     experience |-> PyList(<<ExpEng, ExpMgr>>),
     education |-> PyList(<<>>),
     projects |-> PyList(<<ProjP1, ProjP3>>),
     certificates |-> PyList(<<>>),
     interests |-> PyList(<<GroupOutdoor>>)]
Trees == {TreeFull, TreeEmpty, TreeFlawed, TreeSparse, TreeByName}

\* the sections_to_render argument: not given, or a list of names
RequestNames == {"header", "experience", "projects", "certificates", "bogus"}
SectionsArgs ==
    {[given |-> FALSE, names |-> <<>>]}
    \cup {[given |-> TRUE, names |-> sq] : sq \in SeqsUpTo(RequestNames, MaxRequested)}

\* the four select_* arguments, by section name
NoSelects == [s \in SECTIONS_WITH_SELECT |-> PyNone]
SelectArgs ==
    {NoSelects,
     [NoSelects EXCEPT !["experience"] = PyInt(1), !["projects"] = PyList(<<PyInt(1)>>)],
     [NoSelects EXCEPT !["education"] = PyInt(0), !["certificates"] = PyInt(0)]}
\* the select argument of a direct create_* call
DirectSelects == {PyNone, PyList(<<PyInt(1)>>)}

Init ==
    /\ selItems = <<>>
    /\ selSpec = PyNone
    /\ selOut = [e \in Engines |-> NotCalled]
    /\ nBuilder = 0
    /\ nSection = 0
    /\ tree \in Trees
    /\ templateExists \in BOOLEAN
    /\ tex = <<>>
    /\ err = NoErr
    /\ pre = <<>>
    /\ op = NoOp
    /\ dataSources = {}
    /\ fetches = [s \in SectionNames |-> 0]
    /\ validations = [s \in SectionNames |-> 0]
    /\ pc = "idle"
    /\ sections = <<>>
    /\ idx = 0
    /\ pdfCalls = 0
    /\ nDirect = 0
    /\ jsonFile = NoFile

Counted(n) == Min(n + 1, MaxCounted)

\* the part of _render_section before the renderer runs: the data source is
\* created and cached on first use, and its data property is read
LoadSection(section_name) ==
    IF section_name \in SectionNames
    THEN /\ dataSources' = dataSources \cup {section_name}
         /\ fetches' = [fetches EXCEPT ![section_name] = Counted(@)]
         /\ validations' =
               IF section_key(section_name) \in DOMAIN tree
               THEN [validations EXCEPT ![section_name] = Counted(@)]
               ELSE validations
    ELSE UNCHANGED <<dataSources, fetches, validations>>

\* a direct call of a public create_* method
DirectCall(name, section_name, select) ==
    /\ pc = "idle"
    /\ nDirect < MaxDirectCalls
    /\ Len(tex) <= MaxTexLen
    /\ nDirect' = nDirect + 1
    /\ Effect(name, PyStr(section_name), select,
              render_section(tex, tree, section_name, select))
    /\ LoadSection(section_name)
    /\ UNCHANGED <<tree, templateExists, pc, sections, idx, pdfCalls,
                   nBuilder, nSection, selVars, jsonFile>>

CreateHeader == DirectCall("create_header", "header", PyNone)
CreateSkills == DirectCall("create_skills", "skills", PyNone)
CreateExperiences == \E select \in DirectSelects :
    DirectCall("create_experiences", "experience", select)
CreateEducation == \E select \in DirectSelects :
    DirectCall("create_education", "education", select)
CreateProjects == \E select \in DirectSelects :
    DirectCall("create_projects", "projects", select)
CreateCertificates == \E select \in DirectSelects :
    DirectCall("create_certificates", "certificates", select)
CreateInterests == DirectCall("create_interests", "interests", PyNone)
\* _render_section called with a select value for a section outside
\* SECTIONS_WITH_SELECT, which no public create_* method can do
RenderFixedSection ==
    \E section_name \in SectionNames \ SECTIONS_WITH_SELECT :
        DirectCall("_render_section", section_name, PyInt(0))

\* create_resume is entered: its arguments are bound
CreateResume ==
    /\ pc = "idle"
    /\ Len(tex) <= MaxTexLen
    /\ \E sectionsArg \in SectionsArgs, selects \in SelectArgs :
          /\ op' = [name |-> "create_resume", data |-> sectionsArg, select |-> selects]
          /\ sections' = sectionsArg.names
    /\ pre' = tex
    /\ err' = NoErr
    /\ pc' = "head"
    /\ idx' = 0
    /\ UNCHANGED <<tex, tree, templateExists, dataSources, fetches, validations,
                   pdfCalls, nDirect, nBuilder, nSection, selVars, jsonFile>>

\* self.create_document_head()
StepDocumentHead ==
    /\ pc = "head"
    /\ LET out == create_document_head(tex, templateExists)
       IN  /\ tex' = out.tex
           /\ err' = out.err
           /\ pc' = IF out.err # NoErr THEN "raised" ELSE "validate"
    /\ UNCHANGED <<pre, op, sections, idx, tree, templateExists, dataSources, fetches,
                   validations, pdfCalls, nDirect, nBuilder, nSection, selVars, jsonFile>>

\* the default section list and the check for unknown names
StepValidateRequest ==
    /\ pc = "validate"
    /\ LET requested == IF op.data.given THEN sections ELSE SectionOrder
           invalid == {requested[k] : k \in 1..Len(requested)} \ SectionNames
       IN  /\ sections' = requested
           /\ err' = IF invalid # {}
                     THEN Err("ValueError", "unknown_section", "sections_to_render")
                     ELSE NoErr
           /\ pc' = IF invalid # {} THEN "raised" ELSE "header"
    /\ UNCHANGED <<tex, pre, op, idx, tree, templateExists, dataSources, fetches,
                   validations, pdfCalls, nDirect, nBuilder, nSection, selVars, jsonFile>>

\* StepHeader without the header-first rule: the header stays in the list
\* and is rendered by the body loop at its listed position
StepHeader_in_listed_order ==
    /\ pc = "header"
    /\ pc' = "begin"
    /\ UNCHANGED <<tex, err, sections, dataSources, fetches, validations>>
    /\ UNCHANGED <<pre, op, idx, tree, templateExists, pdfCalls, nDirect,
                   nBuilder, nSection, selVars, jsonFile>>

\* StepHeader removing only the first occurrence of the header from the list
StepHeader_removes_first_only ==
    /\ pc = "header"
    /\ IF \E k \in 1..Len(sections) : sections[k] = "header"
       THEN LET out == render_section(tex, tree, "header", PyNone)
                first == CHOOSE k \in 1..Len(sections) :
                             sections[k] = "header"
                             /\ \A j \in 1..(k - 1) : sections[j] # "header"
            IN  /\ tex' = out.tex
                /\ err' = out.err
                /\ pc' = IF out.err # NoErr THEN "raised" ELSE "begin"
                /\ sections' = SubSeq(sections, 1, first - 1)
                                   \o SubSeq(sections, first + 1, Len(sections))
                /\ LoadSection("header")
       ELSE /\ pc' = "begin"
            /\ UNCHANGED <<tex, err, sections, dataSources, fetches, validations>>
    /\ UNCHANGED <<pre, op, idx, tree, templateExists, pdfCalls, nDirect,
                   nBuilder, nSection, selVars, jsonFile>>

\* the header is rendered first when requested, and removed from the list
StepHeader ==
    /\ pc = "header"
    /\ IF \E k \in 1..Len(sections) : sections[k] = "header"
       THEN LET out == render_section(tex, tree, "header", PyNone)
            IN  /\ tex' = out.tex
                /\ err' = out.err
                /\ pc' = IF out.err # NoErr THEN "raised" ELSE "begin"
                /\ sections' = SelectSeq(sections, LAMBDA s : s # "header")
                /\ LoadSection("header")
       ELSE /\ pc' = "begin"
            /\ UNCHANGED <<tex, err, sections, dataSources, fetches, validations>>
    /\ UNCHANGED <<pre, op, idx, tree, templateExists, pdfCalls, nDirect,
                   nBuilder, nSection, selVars, jsonFile>>

\* self.begin_document()
StepBeginDocument ==
    /\ pc = "begin"
    /\ tex' = begin_document(tex).tex
    /\ pc' = "body"
    /\ idx' = 1
    /\ UNCHANGED <<err, pre, op, sections, tree, templateExists, dataSources, fetches,
                   validations, pdfCalls, nDirect, nBuilder, nSection, selVars, jsonFile>>

\* a select map that hands select_experiences to every selectable section
SelectFor_shared(section_name) ==
    IF section_name \in SECTIONS_WITH_SELECT THEN op.select["experience"] ELSE PyNone

\* section_select_map.get(section_name, None)
SelectFor(section_name) ==
    IF section_name \in SECTIONS_WITH_SELECT THEN op.select[section_name] ELSE PyNone

\* StepBodySection inside a try/finally that still closes and compiles
\* the document when a section raises
StepBodySection_finalizes_on_failure ==
    /\ pc = "body"
    /\ idx <= Len(sections)
    /\ LET out == render_section(tex, tree, sections[idx], SelectFor(sections[idx]))
       IN  /\ tex' = IF out.err # NoErr THEN end_document(out.tex).tex ELSE out.tex
           /\ err' = out.err
           /\ pc' = IF out.err # NoErr THEN "pdf" ELSE "body"
    /\ idx' = idx + 1
    /\ LoadSection(sections[idx])
    /\ UNCHANGED <<pre, op, sections, tree, templateExists, pdfCalls, nDirect,
                   nBuilder, nSection, selVars, jsonFile>>

\* StepBodySection walking the list from its end
StepBodySection_reversed ==
    /\ pc = "body"
    /\ idx <= Len(sections)
    /\ LET section_name == sections[Len(sections) + 1 - idx]
           out == render_section(tex, tree, section_name, SelectFor(section_name))
       IN  /\ tex' = out.tex
           /\ err' = out.err
           /\ pc' = IF out.err # NoErr THEN "raised" ELSE "body"
           /\ LoadSection(section_name)
    /\ idx' = idx + 1
    /\ UNCHANGED <<pre, op, sections, tree, templateExists, pdfCalls, nDirect,
                   nBuilder, nSection, selVars, jsonFile>>

\* one pass of the body loop
StepBodySection ==
    /\ pc = "body"
    /\ idx <= Len(sections)
    /\ LET out == render_section(tex, tree, sections[idx], SelectFor(sections[idx]))
       IN  /\ tex' = out.tex
           /\ err' = out.err
           /\ pc' = IF out.err # NoErr THEN "raised" ELSE "body"
    /\ idx' = idx + 1
    /\ LoadSection(sections[idx])
    /\ UNCHANGED <<pre, op, sections, tree, templateExists, pdfCalls, nDirect,
                   nBuilder, nSection, selVars, jsonFile>>

\* self.end_document()
StepEndDocument ==
    /\ pc = "body"
    /\ idx > Len(sections)
    /\ tex' = end_document(tex).tex
    /\ pc' = "pdf"
    /\ UNCHANGED <<err, pre, op, sections, idx, tree, templateExists, dataSources,
                   fetches, validations, pdfCalls, nDirect, nBuilder, nSection, selVars, jsonFile>>

\* self.create_pdf(): the buffer is written out and compiled
StepCreatePdf ==
    /\ pc = "pdf"
    /\ pdfCalls' = pdfCalls + 1
    /\ pc' = "done"
    /\ UNCHANGED <<tex, err, pre, op, sections, idx, tree, templateExists, dataSources,
                   fetches, validations, nDirect, nBuilder, nSection, selVars, jsonFile>>

\* create_resume returns or its exception reaches the caller: the frame
\* with its arguments and locals is gone, and the caller has taken the
\* result or the exception
StepReturn ==
    /\ pc \in {"raised", "done"}
    /\ pc' = "idle"
    /\ op' = NoOp
    /\ err' = NoErr
    /\ pre' = <<>>
    /\ sections' = <<>>
    /\ idx' = 0
    /\ UNCHANGED <<tex, tree, templateExists, dataSources, fetches,
                   validations, pdfCalls, nDirect, nBuilder, nSection, selVars, jsonFile>>

Next ==
    \/ CreateHeader
    \/ CreateSkills
    \/ CreateExperiences
    \/ CreateEducation
    \/ CreateProjects
    \/ CreateCertificates
    \/ CreateInterests
    \/ RenderFixedSection
    \/ CreateResume
    \/ StepDocumentHead
    \/ StepValidateRequest
    \/ StepHeader
    \/ StepBeginDocument
    \/ StepBodySection
    \/ StepEndDocument
    \/ StepCreatePdf
    \/ StepReturn

Spec == Init /\ [][Next]_vars

(***************************************************************************)
(* Claims about the Resume assembler (checked under Spec)                  *)
(***************************************************************************)
DirectCalls == {"create_header", "create_skills", "create_experiences",
                "create_education", "create_projects", "create_certificates",
                "create_interests"}
\* the current create_resume call was given a name the registry lacks
RequestsUnknownName ==
    /\ op.name = "create_resume"
    /\ TypeOf(op.data) = "dict"
    /\ op.data.given
    /\ \E k \in 1..Len(op.data.names) : op.data.names[k] \notin SectionNames
\* the preamble is part of a buffer
HasPreamble(buf) == \E k \in 1..Len(buf) : buf[k] = <<"documentclass", "resume">>

\* C1: a create_resume call whose section list holds an unregistered name
\* fails with the unknown-section error, and no fragment has been emitted
\* when it is raised (here with the template file in place).
C1_UnknownSectionBeforeAnyOutput ==
    (pc \in {"raised", "done"} /\ RequestsUnknownName /\ templateExists) =>
        /\ err.tag = "unknown_section"
        /\ tex = pre

\* C3: within one Resume instance the data of a section is fetched from the
\* root and validated at most once, however often the section is rendered.
C3_SectionLoadedOnce ==
    \A s \in SectionNames : fetches[s] <= 1 /\ validations[s] <= 1

\* C4: a section rendered by a direct create_* call before the preamble was
\* emitted raises and appends nothing; a create_resume call on an instance
\* that was already finalized raises without appending, and the finalizer
\* never runs a second time.
C4_IllegalTransitionsFailFast ==
    /\ (op.name \in DirectCalls /\ ~HasPreamble(pre)) => (err # NoErr /\ tex = pre)
    /\ (pdfCalls >= 1 /\ pc \notin {"idle", "head", "done"}) =>
           (pc = "raised" /\ tex = pre)
    /\ pdfCalls <= 1

\* the current create_resume call asks for the header: by name, or by
\* leaving sections_to_render unset
HeaderRequested ==
    /\ op.name = "create_resume"
    /\ TypeOf(op.data) = "dict"
    /\ op.data.given => \E k \in 1..Len(op.data.names) : op.data.names[k] = "header"
\* the fragments the current call has appended so far
Emitted == SubSeq(tex, Len(pre) + 1, Len(tex))
\* the preamble of a document whose template exists
Preamble == create_document_head(<<>>, TRUE).tex
BodyOpen == <<"begin", "document">>
BodyClose == <<"end", "document">>
IsHeaderBlock(frags) ==
    /\ Len(frags) = 4
    /\ frags[1][1] = "name"
    /\ frags[2][1] = "address"
    /\ frags[3][1] = "address"
    /\ frags[4] = <<"blank">>

\* C11: when the requested order contains the header, at any position, the
\* first fragments appended after the preamble are the header block, the
\* body-open marker comes right after that block, and nothing of another
\* section precedes it.
C11_HeaderFirstAfterPreamble ==
    (HeaderRequested /\ Len(Emitted) > Len(Preamble)) =>
        /\ SubSeq(Emitted, 1, Len(Preamble)) = Preamble
        /\ Len(Emitted) >= Len(Preamble) + 4
        /\ IsHeaderBlock(SubSeq(Emitted, Len(Preamble) + 1, Len(Preamble) + 4))
        /\ \A k \in 1..Len(Emitted) :
               Emitted[k] = BodyOpen => k = Len(Preamble) + 5
\* a finished run whose list names the header last, after a body section
C11_Witness ==
    /\ pc = "done"
    /\ op.data.given
    /\ op.data.names = <<"projects", "header">>
    /\ Emitted[Len(Preamble) + 1][1] = "name"
    /\ Emitted[Len(Preamble) + 5] = BodyOpen
    /\ \E k \in 1..Len(Emitted) : Emitted[k] = <<"rSection", "PROJECTS">>

\* C12: in a run of create_resume the finalizer (create_pdf) runs only as
\* the step after the body-close marker was appended and with no error
\* raised; a run that succeeds passes through it exactly once, and a run
\* that raises at an earlier step never reaches it.
C12_FinalizerOnceAfterBodyClose ==
    [][/\ pdfCalls' # pdfCalls =>
              /\ pdfCalls' = pdfCalls + 1
              /\ pc = "pdf" /\ pc' = "done"
              /\ err = NoErr
              /\ Emitted # <<>> /\ tex[Len(tex)] = BodyClose
              /\ tex' = tex
       /\ (pc' = "pdf" /\ pc # "pdf") => tex' = Append(tex, BodyClose)
       /\ (pc' = "done" /\ pc # "done") => pdfCalls' = pdfCalls + 1
       /\ (pc' = "raised" /\ pc # "raised") =>
              /\ pc \in {"head", "validate", "header", "body"}
              /\ pdfCalls' = pdfCalls
       /\ pc \in {"raised", "done"} => (pc' = "idle" /\ pdfCalls' = pdfCalls)
      ]_vars
\* a first run that succeeded: one finalizer call, the buffer ends with the
\* body-close marker
C12_Witness ==
    /\ pc = "done"
    /\ pdfCalls = 1
    /\ pre = <<>>
    /\ tex[Len(tex)] = BodyClose

\* how often a fragment occurs in a sequence of fragments
Occurrences(frags, frag) == Cardinality({k \in 1..Len(frags) : frags[k] = frag})
\* the positions of the fragments that open a section or the header
SectionStarts(frags) ==
    {k \in 1..Len(frags) : frags[k][1] \in {"rSection", "name"}}

\* C13: a successful run of create_resume has emitted, in this order and
\* each once: the preamble, the header block if the header was requested,
\* the body-open marker, the body sections, the body-close marker; the
\* finalizer has then run, every section lies before the body-close marker
\* and the finalized buffer is not appended to.
C13_LifecycleOrder ==
    /\ [](pc = "done" =>
            LET n == Len(Preamble)
                h == IF HeaderRequested THEN 4 ELSE 0
            IN  /\ Len(Emitted) >= n + h + 2
                /\ SubSeq(Emitted, 1, n) = Preamble
                /\ Occurrences(Emitted, Preamble[1]) = 1
                /\ HeaderRequested => IsHeaderBlock(SubSeq(Emitted, n + 1, n + h))
                /\ Cardinality({k \in 1..Len(Emitted) : Emitted[k][1] = "name"})
                       = (IF HeaderRequested THEN 1 ELSE 0)
                /\ Emitted[n + h + 1] = BodyOpen
                /\ Occurrences(Emitted, BodyOpen) = 1
                /\ Emitted[Len(Emitted)] = BodyClose
                /\ Occurrences(Emitted, BodyClose) = 1
                /\ \A k \in SectionStarts(Emitted) :
                       k = n + 1 \/ (n + h + 1 < k /\ k < Len(Emitted))
                /\ pdfCalls >= 1)
    /\ [][pc = "done" => tex' = tex]_vars
\* a successful run with the header and two body sections
C13_Witness ==
    /\ pc = "done"
    /\ HeaderRequested
    /\ Cardinality(SectionStarts(Emitted)) = 3
    /\ Emitted[Len(Emitted)] = BodyClose

\* the names the caller listed (every registered name when the list was
\* left unset), with each occurrence of the header removed
ListedBody ==
    SelectSeq(IF op.data.given THEN op.data.names ELSE SectionOrder,
              LAMBDA s : s # "header")
\* what rendering one section of the root appends to an empty buffer
SectionOutput(section_name) ==
    render_section(<<>>, tree, section_name,
                   IF section_name \in SECTIONS_WITH_SELECT
                   THEN op.select[section_name] ELSE PyNone).tex
\* the fragments of the current run that follow the body-open marker, up to
\* the body-close marker
BodyFragments ==
    LET open == CHOOSE k \in 1..Len(Emitted) : Emitted[k] = BodyOpen
        last == IF Emitted[Len(Emitted)] = BodyClose
                THEN Len(Emitted) - 1 ELSE Len(Emitted)
    IN  SubSeq(Emitted, open + 1, last)

\* C14: once the body is open the sections other than the header are
\* rendered in the order the caller listed them, one render for each listed
\* occurrence: the body holds the output of the listed sections, in order
\* (of the first idx - 1 of them while the loop is running).
C14_BodyInListedOrder ==
    (op.name = "create_resume" /\ pc \in {"body", "pdf", "done"}) =>
        LET rendered == IF pc = "body" THEN idx - 1 ELSE Len(ListedBody)
        IN  BodyFragments =
                Flatten([k \in 1..rendered |-> SectionOutput(ListedBody[k])])
\* certificates listed before projects: both rendered, in that order
C14_Witness ==
    /\ pc = "done"
    /\ op.data.given
    /\ op.data.names = <<"certificates", "projects">>
    /\ \E j, k \in 1..Len(BodyFragments) :
           /\ j < k
           /\ BodyFragments[j] = <<"rSection", "CERTIFICATIONS">>
           /\ BodyFragments[k] = <<"rSection", "PROJECTS">>

\* the selection the caller of create_resume gave for a section name:
\* select_experiences, select_education, select_projects,
\* select_certificates; none exists for the other sections
CallerSelect(selects, section_name) ==
    CASE section_name = "experience" -> selects["experience"]
      [] section_name = "education" -> selects["education"]
      [] section_name = "projects" -> selects["projects"]
      [] section_name = "certificates" -> selects["certificates"]
      [] OTHER -> PyNone
\* the outcome of rendering a section of the root with a given selection
RenderedWith(buf, section_name, select) ==
    LET d == datasource_data(section_name, tree)
    IN  IF Raised(d) THEN Abort(buf, d.err)
        ELSE CASE section_name = "experience" -> add_experiences(buf, d.val, select)
               [] section_name = "education" -> add_education(buf, d.val, select)
               [] section_name = "projects" -> add_projects(buf, d.val, select)
               [] section_name = "certificates" -> add_certificates(buf, d.val, select)
               [] section_name = "header" -> add_header(buf, d.val)
               [] section_name = "skills" -> add_skills(buf, d.val)
               [] OTHER -> add_interests(buf, d.val)

\* C15: every render of a selection-capable section uses the caller's
\* selection for that very section name (unset when none was given), in the
\* body loop of create_resume and in a direct call alike; a section that
\* does not support selection is rendered as if no selection was given.
C15_SelectionPassedThrough ==
    [][/\ (pc = "body" /\ idx' = idx + 1) =>
              LET expected == RenderedWith(tex, sections[idx],
                                           CallerSelect(op.select, sections[idx]))
              IN  tex' = expected.tex /\ err' = expected.err
       /\ nDirect' # nDirect =>
              LET section_name == op'.data.s
                  expected == RenderedWith(tex, section_name,
                                  IF section_name \in SECTIONS_WITH_SELECT
                                  THEN op'.select ELSE PyNone)
              IN  tex' = expected.tex /\ err' = expected.err
      ]_vars
\* projects selected by index list [1] while certificates has no selection:
\* the body holds the second project only and both certificates
C15_Witness ==
    /\ pc = "done"
    /\ op.data.given
    /\ op.data.names = <<"projects", "certificates">>
    /\ op.select["projects"] = PyList(<<PyInt(1)>>)
    /\ op.select["certificates"] = PyNone
    /\ op.select["experience"] = PyInt(1)
    /\ Occurrences(BodyFragments, <<"item", "P3", "z">>) = 1
    /\ \A k \in 1..Len(BodyFragments) : BodyFragments[k][2] # "P1"
    /\ \E j, k \in 1..Len(BodyFragments) :
           BodyFragments[j][2] = "K1" /\ BodyFragments[k][2] = "K3"

\* the field that holds the end of an entry's period, and the one that holds
\* its start
EndField(section_name) == IF section_name = "experience" THEN "end_date" ELSE "end_year"
StartField(section_name) ==
    IF section_name = "experience" THEN "start_date" ELSE "start_year"
\* the section a direct create_* call renders
DirectSection == op.data.s
\* the entries of that section in the root, <<>> when the root lacks it
DirectEntries ==
    IF section_key(DirectSection) \in DOMAIN tree
    THEN tree[section_key(DirectSection)].l ELSE <<>>
\* every entry is one the section's renderer accepts
RendererAccepts(section_name, entries) ==
    \A k \in 1..Len(entries) :
        IF section_name = "experience"
        THEN validate_experience(entries[k]) = NoErr
        ELSE validate_education(entries[k]) = NoErr

\* C18: when create_experiences or create_education renders, without a
\* selection, entries that its renderer accepts, a null end date is not
\* rejected at any stage, and every entry whose end is null is rendered with
\* its period ending in 'Present'.
C18_NullEndDateRendersPresent ==
    (/\ op.name \in {"create_experiences", "create_education"}
     /\ op.select = PyNone
     /\ RendererAccepts(DirectSection, DirectEntries)) =>
        \A k \in 1..Len(DirectEntries) :
            DirectEntries[k][EndField(DirectSection)] = PyNone =>
                /\ err.field # EndField(DirectSection)
                /\ \E j \in 1..Len(Emitted) :
                       Emitted[j] = <<"period",
                                      Fmt(DirectEntries[k][StartField(DirectSection)])
                                          \o " - Present">>

\* the strings of the fragments the current call has appended
EmittedText == UNION {{Emitted[k][i] : i \in DOMAIN Emitted[k]} : k \in 1..Len(Emitted)}
\* a run of create_resume has ended, by returning or by raising
RunEnded == op.name = "create_resume" /\ pc \in {"raised", "done"}
\* the root of the experience scenario: a header its data source accepts
\* and the entries Eng (null end date) and Mgr, under the key the data
\* source reads or under the section's own name
ExperienceScenarioRoot ==
    /\ "header" \in DOMAIN tree
    /\ validate("header", tree["header"]) = NoErr
    /\ \E key \in {"professional_experience", "experience"} :
           key \in DOMAIN tree /\ tree[key] = PyList(<<ExpEng, ExpMgr>>)

\* C19: a run of create_resume over a root with a valid header and the two
\* experience entries, with order [header, experience] and experience
\* selection 1, succeeds; the buffer holds the header block and then one
\* experience block, the first entry's with 'Present', and nothing of the
\* second entry.
C19_HeaderAndFirstExperience ==
    (/\ RunEnded
     /\ templateExists
     /\ ExperienceScenarioRoot
     /\ op.data.given
     /\ op.data.names = <<"header", "experience">>
     /\ op.select["experience"] = PyInt(1)) =>
        /\ pc = "done"
        /\ err = NoErr
        /\ IsHeaderBlock(SubSeq(Emitted, Len(Preamble) + 1, Len(Preamble) + 4))
        /\ Cardinality({k \in 1..Len(Emitted) : Emitted[k][1] = "textbf"}) = 1
        /\ \E j, k \in 1..Len(Emitted) :
               /\ Len(Preamble) + 4 < j /\ j < k
               /\ Emitted[j] = <<"textbf", "Eng">>
               /\ Emitted[k] = <<"period", "2020 - Present">>
        /\ EmittedText \cap {"Mgr", "BCo", "2018 - 2019"} = {}

\* the root of the projects scenario: P1 with bullets and a link, P2 with
\* bullets and no link field
ProjectsScenarioRoot ==
    /\ "projects" \in DOMAIN tree
    /\ tree["projects"] = PyList(<<ProjP1, ProjP2>>)
\* the buffer holds a block for P2 only, and no hyperlink
OnlySecondProject ==
    /\ Occurrences(Emitted, <<"item", "P2", "y">>) = 1
    /\ Cardinality({k \in 1..Len(Emitted) : Emitted[k][1] = "item"}) = 1
    /\ EmittedText \cap {"P1", "href", "http://a"} = {}

\* C20: rendering the projects of that root with projects selection [1], by
\* create_resume with order [projects] or by create_projects, succeeds and
\* leaves a block for P2 only, without a hyperlink fragment.
C20_SecondProjectWithoutLink ==
    /\ (/\ RunEnded
        /\ templateExists
        /\ ProjectsScenarioRoot
        /\ op.data.given
        /\ op.data.names = <<"projects">>
        /\ op.select["projects"] = PyList(<<PyInt(1)>>)) =>
           (pc = "done" /\ err = NoErr /\ OnlySecondProject)
    /\ (/\ op.name = "create_projects"
        /\ ProjectsScenarioRoot
        /\ op.select = PyList(<<PyInt(1)>>)) =>
           (err = NoErr /\ OnlySecondProject)

(***************************************************************************)
(* SpecValidate: the data-source validators and the renderers' entry       *)
(* validators applied to records that break their schema in up to          *)
(* MaxViolations fields                                                    *)
(***************************************************************************)
\* a value of a type outside a set of accepted types
WrongValue(types) == IF "int" \in types THEN PyStr("seven") ELSE PyInt(7)

\* the fields a data source checks on an entry, in the order it checks them
DataSchema(section_name) ==
    CASE section_name = "skills" -> << <<"category", {"str"}>>, <<"items", {"list"}>> >>
      [] section_name = "interests" -> << <<"items", {"list"}>> >>
      [] OTHER -> REQUIRED_FIELDS(section_name)

\* a well-formed entry of each section
BaseEntry(section_name) ==
    CASE section_name = "header" -> HeaderLinked
      [] section_name = "skills" -> SkillLang
      [] section_name = "experience" -> ExpMgr
      [] section_name = "education" -> EduBSc
      [] section_name = "projects" -> ProjP1
      [] section_name = "certificates" -> CertK1
      [] OTHER -> GroupOutdoor

\* the entries obtained from a well-formed one by dropping some schema
\* fields and giving others a value of a wrong type
BrokenEntries(section_name) ==
    LET schema == DataSchema(section_name)
        base == BaseEntry(section_name)
        fields == {schema[k][1] : k \in 1..Len(schema)}
        types(f) == schema[CHOOSE k \in 1..Len(schema) : schema[k][1] = f][2]
        marks == {m \in [fields -> {"ok", "missing", "wrong"}] :
                     Cardinality({f \in fields : m[f] # "ok"}) <= MaxViolations}
    IN  {[f \in {g \in DOMAIN base : g \notin fields \/ m[g] # "missing"} |->
             IF f \in fields /\ m[f] = "wrong" THEN WrongValue(types(f)) ELSE base[f]]
         : m \in marks}

\* a loaded root that holds one section: the header mapping, or a list of
\* one entry
ValidationRoots ==
    UNION {{IF section_name = "header"
            THEN [k \in {"header"} |-> entry]
            ELSE [k \in {section_key(section_name)} |-> PyList(<<entry>>)]
            : entry \in BrokenEntries(section_name)}
           : section_name \in SectionNames}

\* the section the root holds, and its entry
RootSection == CHOOSE s \in SectionNames : section_key(s) \in DOMAIN tree
RootEntry ==
    IF RootSection = "header" THEN tree["header"]
    ELSE tree[section_key(RootSection)].l[1]

InitValidate ==
    /\ selItems = <<>>
    /\ selSpec = PyNone
    /\ selOut = [e \in Engines |-> NotCalled]
    /\ tex = <<>>
    /\ err = NoErr
    /\ pre = <<>>
    /\ op = NoOp
    /\ nBuilder = 0
    /\ nSection = 0
    /\ tree \in ValidationRoots
    /\ templateExists = TRUE
    /\ dataSources = {}
    /\ fetches = <<>>
    /\ validations = <<>>
    /\ pc = "idle"
    /\ sections = <<>>
    /\ idx = 0
    /\ pdfCalls = 0
    /\ nDirect = 0
    /\ jsonFile = NoFile

\* a validator is run on the entry: the exception it raises, if any
ValidatorCall(name, e) ==
    /\ op' = [name |-> name, data |-> PyStr(RootSection), select |-> PyNone]
    /\ err' = e
    /\ UNCHANGED <<tex, pre, nBuilder, nSection, selVars, resVars>>

\* SectionDataSource.data is read
ReadData == ValidatorCall("data", datasource_data(RootSection, tree).err)
ValidateSkill ==
    /\ RootSection = "skills"
    /\ ValidatorCall("_validate_skill", validate_skill(RootEntry))
ValidateExperience ==
    /\ RootSection = "experience"
    /\ ValidatorCall("_validate_experience", validate_experience(RootEntry))
ValidateEducation ==
    /\ RootSection = "education"
    /\ ValidatorCall("_validate_education", validate_education(RootEntry))
ValidateProject ==
    /\ RootSection = "projects"
    /\ ValidatorCall("_validate_project", validate_project(RootEntry))
ValidateCertificate ==
    /\ RootSection = "certificates"
    /\ ValidatorCall("_validate_certificate", validate_certificate(RootEntry))

NextValidate ==
    \/ ReadData
    \/ ValidateSkill
    \/ ValidateExperience
    \/ ValidateEducation
    \/ ValidateProject
    \/ ValidateCertificate

SpecValidate == InitValidate /\ [][NextValidate]_vars

(***************************************************************************)
(* Claims about the validators (checked under SpecValidate)                *)
(***************************************************************************)
\* the required fields of the validator that was called, in the order its
\* schema declares them, each with its accepted types
ValidatorSchema ==
    CASE op.name = "_validate_skill" ->
            << <<"category", {"str"}>>, <<"items", {"list"}>> >>
      [] op.name = "_validate_experience" -> ExperienceRequired
      [] op.name = "_validate_education" -> EducationRequired
      [] op.name \in {"_validate_project", "_validate_certificate"} ->
            << <<"name", {"str"}>>, <<"bullets", {"list"}>> >>
      [] OTHER -> DataSchema(RootSection)
\* the schema positions whose field the entry lacks / holds with a wrong type
MissingAt(entry, schema) ==
    {k \in 1..Len(schema) : schema[k][1] \notin DOMAIN entry}
MistypedAt(entry, schema) ==
    {k \in 1..Len(schema) :
        /\ schema[k][1] \in DOMAIN entry
        /\ ~IsInstanceAny(entry[schema[k][1]], schema[k][2])}
\* the fields an error message names
FieldsNamed(e) ==
    CASE e.field = "category and items" -> {"category", "items"}
      [] e.field = "name and bullets" -> {"name", "bullets"}
      [] OTHER -> {e.field}
\* the error a validator owes for the schema position k of an entry
OwedErrorRaised(entry, schema, k) ==
    /\ err.type = (IF k \in MissingAt(entry, schema) THEN "KeyError" ELSE "TypeError")
    /\ schema[k][1] \in FieldsNamed(err)

\* C16: a validator run on a record that breaks its schema in one field
\* raises KeyError naming the field when the field is missing, and TypeError
\* naming the field when the field is present with a wrong type.
C16_MissingVersusWrongType ==
    op.name # "" =>
        LET broken == MissingAt(RootEntry, ValidatorSchema)
                          \cup MistypedAt(RootEntry, ValidatorSchema)
        IN  Cardinality(broken) = 1 =>
                \A k \in broken : OwedErrorRaised(RootEntry, ValidatorSchema, k)

\* C17: a validator run on a record that breaks its schema in several
\* fields raises the error owed for the violating field that comes first in
\* the schema's declaration order.
C17_FirstViolationInSchemaOrder ==
    op.name # "" =>
        LET broken == MissingAt(RootEntry, ValidatorSchema)
                          \cup MistypedAt(RootEntry, ValidatorSchema)
        IN  Cardinality(broken) >= 2 =>
                OwedErrorRaised(RootEntry, ValidatorSchema,
                                CHOOSE k \in broken : \A j \in broken : k <= j)

(***************************************************************************)
(* Further claims about the section renderers (checked under SpecSections)  *)
(***************************************************************************)
\* every entry of a skills list is one _validate_skill accepts
ValidSkills(skills) ==
    \A k \in 1..Len(skills.l) : validate_skill(skills.l[k]) = NoErr
\* the table rows among a sequence of fragments, in order
Rows(frags) == SelectSeq(frags, LAMBDA f : f[1] = "row")

\* C21: add_skills called on the LateX builder with a non-empty list of
\* valid skills raises nothing and appends one table row per category, in
\* the order of the list, each holding the category and its items joined
\* by ', '.
C21_SkillsRowsPerCategory ==
    (op.name = "add_skills" /\ Truthy(op.data) /\ ValidSkills(op.data)) =>
        /\ err = NoErr
        /\ Rows(SubSeq(tex, Len(pre) + 1, Len(tex)))
               = [k \in 1..Len(op.data.l) |->
                     <<"row", op.data.l[k]["category"].s, JoinComma(op.data.l[k]["items"])>>]

\* the entry validator of the renderer behind a collection call
EntryValidator(name, entry) ==
    CASE name = "add_experiences" -> validate_experience(entry)
      [] name = "add_education" -> validate_education(entry)
      [] name = "add_projects" -> validate_project(entry)
      [] OTHER -> validate_certificate(entry)
\* the entry with its bullets field set to a list of one string
WithBullets(entry) ==
    [f \in DOMAIN entry \cup {"bullets"} |->
        IF f = "bullets" THEN StrList(<<"b">>) ELSE entry[f]]
\* the bullets field is absent, or a list of strings (empty or not)
BulletsWellFormed(entry) ==
    "bullets" \in DOMAIN entry =>
        (IsInstance(entry["bullets"], "list") /\ AllStr(entry["bullets"]))
\* the bullets field is present and holds at least one string
HasBullets(entry) == "bullets" \in DOMAIN entry /\ Truthy(entry["bullets"])
\* an itemized block that holds no item
EmptyItemize(frags) ==
    \E k \in 1..(Len(frags) - 1) :
        frags[k] = <<"begin", "itemize">> /\ frags[k + 1] = <<"end", "itemize">>

\* C22: when a collection section is rendered without a selection from
\* entries that are valid apart from their bullets field, an entry with
\* non-empty bullets appears with an item of an itemized block, and an entry
\* whose bullets are absent or an empty list is accepted: no error about
\* bullets is raised and no empty itemized block is appended.
C22_BulletsOptional ==
    (/\ op.name \in CollectionCalls
     /\ op.select = PyNone
     /\ \A k \in 1..Len(op.data.l) :
            /\ BulletsWellFormed(op.data.l[k])
            /\ EntryValidator(op.name, WithBullets(op.data.l[k])) = NoErr) =>
        LET appended == SubSeq(tex, Len(pre) + 1, Len(tex))
        IN  \A k \in 1..Len(op.data.l) :
                IF HasBullets(op.data.l[k])
                THEN \E j \in 1..Len(appended) :
                         /\ appended[j][1] = "item"
                         /\ \E i \in DOMAIN appended[j] :
                                appended[j][i] = op.data.l[k]["bullets"].l[1].s
                ELSE /\ err.field # "bullets"
                     /\ err.tag \notin {"missing_field", "wrong_type"}
                     /\ ~EmptyItemize(appended)

\* the renderer calls whose entries carry an optional link field
LinkCalls == {"add_header", "add_projects", "add_certificates"}
\* the entries such a call renders: the header itself, or the whole list
LinkEntries == IF op.name = "add_header" THEN <<op.data>> ELSE op.data.l
\* the optional link of an entry, None when the entry has no such field
LinkOf(entry) == Get(entry, IF op.name = "add_header" THEN "linkedin" ELSE "link")
\* the fragment the call appended for its k-th entry: the header's second
\* address line, or the entry's item after the section's three opening
\* fragments
LinkFragment(k) == IF op.name = "add_header" THEN tex[Len(pre) + 3] ELSE tex[Len(pre) + 3 + k]
\* the length of the primary description inside that fragment: the e-mail
\* link of the header, the name and first bullet of an item
DescriptionLen == IF op.name = "add_header" THEN 4 ELSE 3
\* the fragment ends, right after the description, with a hyperlink to url
HyperlinkAfterDescription(frag, url) ==
    /\ Len(frag) > DescriptionLen + 1
    /\ frag[DescriptionLen + 1] = "href"
    /\ frag[DescriptionLen + 2] = url
\* the links that are to be rendered: every non-null link, or with
\* omitEmpty only those that are not the empty string either
Linked(link, omitEmpty) == link # PyNone /\ (omitEmpty => link # PyStr(""))
\* every entry whose link is to be rendered got the hyperlink, and every
\* other entry's fragment ends with its description
LinkRule(omitEmpty) ==
    (op.name \in LinkCalls /\ op.select = PyNone /\ err = NoErr) =>
        \A k \in 1..Len(LinkEntries) :
            IF Linked(LinkOf(LinkEntries[k]), omitEmpty)
            THEN HyperlinkAfterDescription(LinkFragment(k), Fmt(LinkOf(LinkEntries[k])))
            ELSE Len(LinkFragment(k)) = DescriptionLen

\* C23 as stated: a project, certificate or header whose link field is
\* present and not null is rendered with a hyperlink fragment after its
\* description, and one whose link is null or absent without any.
C23_LinkWhenNonNull == LinkRule(FALSE)

\* C23 as amended: the hyperlink fragment is appended exactly for a link
\* that is present, not null and not the empty string; a null, absent or
\* empty link leaves no hyperlink markup.
C23_LinkWhenNonEmpty == LinkRule(TRUE)
\* projects rendered with a linked entry and an entry whose link is empty
C23_Witness ==
    /\ op.name = "add_projects"
    /\ op.select = PyNone
    /\ err = NoErr
    /\ op.data = PyList(<<ProjP1, ProjP3>>)
    /\ tex[Len(pre) + 4] = <<"item", "P1", "x", "href", "http://a">>
    /\ tex[Len(pre) + 5] = <<"item", "P3", "z">>

\* C24: add_skills called with an empty skills list raises nothing and
\* leaves the buffer as it was: no SKILLS heading and no table is appended.
C24_EmptySkillsRenderNothing ==
    (op.name = "add_skills" /\ op.data = PyList(<<>>)) =>
        /\ err = NoErr
        /\ tex = pre
\* an empty skills list rendered onto a buffer that already holds a fragment
C24_Witness ==
    /\ op.name = "add_skills"
    /\ op.data = PyList(<<>>)
    /\ Len(pre) = 1
    /\ tex = pre

\* the fields of an entry that hold the start and the end of its period
PeriodFields(name) ==
    IF name = "add_experiences" THEN <<"start_date", "end_date">>
    ELSE <<"start_year", "end_year">>
\* the period fragment of an entry that ends with the given text
PeriodEnding(name, entry, ending) ==
    <<"period", Fmt(entry[PeriodFields(name)[1]]) \o " - " \o ending>>

\* C30: when add_experiences or add_education renders, without a selection,
\* entries that its validator accepts, every entry whose end date is not
\* null (any string, any integer, the empty string and 0 included) gets a
\* period that ends with that value, and none that ends with 'Present'.
C30_PresentOnlyForNull ==
    (/\ op.name \in {"add_experiences", "add_education"}
     /\ op.select = PyNone
     /\ \A k \in 1..Len(op.data.l) : EntryValidator(op.name, op.data.l[k]) = NoErr) =>
        LET appended == SubSeq(tex, Len(pre) + 1, Len(tex))
        IN  \A k \in 1..Len(op.data.l) :
                LET entry == op.data.l[k]
                    end == entry[PeriodFields(op.name)[2]]
                IN  end # PyNone =>
                        /\ \E j \in 1..Len(appended) :
                               appended[j] = PeriodEnding(op.name, entry, Fmt(end))
                        /\ \A j \in 1..Len(appended) :
                               appended[j] # PeriodEnding(op.name, entry, "Present")

(***************************************************************************)
(* Further claims about the Resume assembler (checked under Spec)          *)
(***************************************************************************)
\* the last operation rendered one section outside create_resume
RenderedDirectly == op.name \in DirectCalls \cup {"_render_section"}

DataKey(name) == IF name = "experience" THEN "professional_experience" ELSE name

IsPrefix(old, new) == Len(old) <= Len(new) /\ SubSeq(new, 1, Len(old)) = old

\* C26: the buffer is append-only: across every step of a Resume instance
\* (a direct section render, a step of create_resume with the builder calls
\* it makes, a return), failing or not, the buffer before the step is an
\* initial part of the buffer after it.
C26_BufferAppendOnly == [][IsPrefix(tex, tex')]_vars
\* a run that raised after it had appended to a buffer that already held
\* fragments
C26_Witness ==
    /\ pc = "raised"
    /\ pre # <<>>
    /\ Len(tex) > Len(pre)
    /\ IsPrefix(pre, tex)

\* C28: a header record that HeaderDataSource accepts is renderable:
\* create_header over a root whose header passes the data source's
\* validation raises nothing and appends the header block, also when the
\* record carries keys beyond the five required fields.
C28_ValidatedHeaderRenders ==
    (/\ op.name = "create_header"
     /\ "header" \in DOMAIN tree
     /\ validate("header", tree["header"]) = NoErr) =>
        /\ err = NoErr
        /\ IsHeaderBlock(Emitted)

\* the header blocks the current call has appended
HeaderBlocks == Cardinality({k \in 1..Len(Emitted) : Emitted[k][1] = "name"})

\* C29: a run of create_resume appends the header block at most once; once
\* it is past the header step it has appended the block exactly once when
\* the request names the header (however often) and not at all otherwise,
\* and no occurrence of the header is left in the body list; a finished run
\* without the header has still opened and closed the body.
C29_HeaderAtMostOnce ==
    op.name = "create_resume" =>
        /\ HeaderBlocks <= 1
        /\ pc \in {"begin", "body", "pdf", "done"} =>
               /\ HeaderBlocks = (IF HeaderRequested THEN 1 ELSE 0)
               /\ \A k \in 1..Len(sections) : sections[k] # "header"
        /\ (pc = "done" /\ ~HeaderRequested) =>
               /\ Occurrences(Emitted, BodyOpen) = 1
               /\ Emitted[Len(Preamble) + 1] = BodyOpen
               /\ Emitted[Len(Emitted)] = BodyClose
\* a finished run whose request names the header twice
C29_Witness ==
    /\ pc = "done"
    /\ op.data.given
    /\ op.data.names = <<"header", "header">>
    /\ HeaderBlocks = 1
    /\ sections = <<>>

(***************************************************************************)
(* SpecLoad: one JSONDataSource (data_loader/json_loader.py) over a file   *)
(* that changes on disk; tree holds its _data, None before the first load  *)
(***************************************************************************)
\* the file does not exist / does not parse / parses to a top-level value
MissingFile == [kind |-> "missing", value |-> PyNone]
InvalidFile == [kind |-> "invalid", value |-> PyNone]
JsonFile(value) == [kind |-> "json", value |-> value]
\* top-level values a JSON document can hold
TopLevelValues ==
    {TreeFull, TreeEmpty, TreeSparse, PyList(<<PyInt(1), PyInt(2), PyInt(3)>>),
     PyList(<<>>), PyStr("text"), PyInt(7), PyBool(TRUE), PyNone}
JsonFiles == {MissingFile, InvalidFile} \cup {JsonFile(v) : v \in TopLevelValues}

\* JSONDataSource.load: the _data it leaves and the exception it raises
json_load(stored, file) ==
    IF file.kind = "missing"
    THEN [stored |-> stored, err |-> Err("FileNotFoundError", "json_not_found", "")]
    ELSE IF file.kind = "invalid"
    THEN [stored |-> stored, err |-> Err("JSONDecodeError", "invalid_json", "")]
    ELSE IF ~IsMapping(file.value)
    THEN [stored |-> file.value, err |-> Err("ValueError", "top_level_not_object", "")]
    ELSE [stored |-> file.value, err |-> NoErr]

\* JSONDataSource.data
json_data(stored) ==
    IF ~IsMapping(stored) /\ IsInstance(stored, "none")
    THEN Fail(Err("RuntimeError", "not_loaded", ""))
    ELSE Ok(stored)

InitLoad ==
    /\ selItems = <<>>
    /\ selSpec = PyNone
    /\ selOut = [e \in Engines |-> NotCalled]
    /\ tex = <<>>
    /\ err = NoErr
    /\ pre = <<>>
    /\ op = NoOp
    /\ nBuilder = 0
    /\ nSection = 0
    /\ tree = PyNone
    /\ templateExists = TRUE
    /\ dataSources = {}
    /\ fetches = <<>>
    /\ validations = <<>>
    /\ pc = "idle"
    /\ sections = <<>>
    /\ idx = 0
    /\ pdfCalls = 0
    /\ nDirect = 0
    /\ jsonFile \in JsonFiles

\* the file is replaced on disk, outside the program
WriteJsonFile ==
    /\ \E file \in JsonFiles : jsonFile' = file
    /\ op' = [name |-> "write_file", data |-> PyNone, select |-> PyNone]
    /\ err' = NoErr
    /\ UNCHANGED <<tex, pre, nBuilder, nSection, selVars, tree, templateExists,
                   dataSources, fetches, validations, pc, sections, idx, pdfCalls,
                   nDirect>>

\* datasource.load()
Load ==
    /\ tree' = json_load(tree, jsonFile).stored
    /\ err' = json_load(tree, jsonFile).err
    /\ op' = [name |-> "load", data |-> PyNone, select |-> PyNone]
    /\ UNCHANGED <<tex, pre, nBuilder, nSection, selVars, templateExists,
                   dataSources, fetches, validations, pc, sections, idx, pdfCalls,
                   nDirect, jsonFile>>

\* datasource.data is read
ReadJsonData ==
    /\ err' = json_data(tree).err
    /\ op' = [name |-> "data", data |-> PyNone, select |-> PyNone]
    /\ UNCHANGED <<tex, pre, nBuilder, nSection, selVars, tree, templateExists,
                   dataSources, fetches, validations, pc, sections, idx, pdfCalls,
                   nDirect, jsonFile>>

NextLoad ==
    \/ WriteJsonFile
    \/ Load
    \/ ReadJsonData

SpecLoad == InitLoad /\ [][NextLoad]_vars

(***************************************************************************)
(* Claims about the JSON data source (checked under SpecLoad)              *)
(***************************************************************************)
\* C27: a JSONDataSource never exposes a tree that is not an object: the
\* data accessor raises or returns a dict in every state, and a load that
\* fails (file missing, parse error, top-level value not an object) leaves
\* the stored data as it was, so that a source never loaded with success
\* still raises the not-loaded RuntimeError.
C27_OnlyObjectsExposed ==
    /\ [](Raised(json_data(tree)) \/ IsMapping(json_data(tree).val))
    /\ [][(op'.name = "load" /\ err' # NoErr) => tree' = tree]_vars

====
